---- MODULE Spec2Model ----
(***************************************************************************)
(* Host Companion Daemon (scripts/host.ts): the worker supervisor, the     *)
(* request dispatcher, the credential checks, the confined directory       *)
(* listing and the message relay with its tool pause, as a state machine.  *)
(*                                                                         *)
(* The daemon is one event loop: every `await` of the source is a point    *)
(* where another request's continuation, a timer or a child-process event  *)
(* may run.  Each action below is the synchronous block between two such   *)
(* points.  Strings that the code inspects character by character (paths)  *)
(* are sequences of one-character strings.                                 *)
(***************************************************************************)
EXTENDS Integers, Sequences, FiniteSets, TLC

\* ------------------------------------------------------------------------
\* Bounds of the model
\* ------------------------------------------------------------------------

\* Requests the clients create in one run.
MaxReq == 2
\* Longest requested path of the directory-listing specification.
MaxPathLen == 5
\* Child processes spawned in one run.
MaxPid == 3
\* Reaper periods the clock may advance in one run.
MaxTicks == 3
\* Width of the configured port range.
NumPorts == 2
\* Delta events a worker streams in one relay.
MaxDeltas == 2
\* Tool invocations a worker raises in one relay.
MaxTools == 2
\* Sessions the workers create in one run.
MaxSessions == 2

ReqIds == 1..MaxReq

\* processRequest calls the model follows for one request id.
MaxCalls == 2

\* The calls of processRequest: the n-th call for request r is call
\* r + (n - 1) * MaxReq, so a request's first call bears the request's id.
CallIds == 1..(MaxCalls * MaxReq)
ReqOf(c) == ((c - 1) % MaxReq) + 1
CallOf(r, n) == r + (n - 1) * MaxReq

\* ------------------------------------------------------------------------
\* Strings as sequences of characters; path.resolve and String.startsWith
\* ------------------------------------------------------------------------

Str1(a) == <<a>>
Slash == "/"

\* String.prototype.startsWith
StartsWith(s, p) ==
  /\ Len(p) <= Len(s)
  /\ SubSeq(s, 1, Len(p)) = p

\* s.replace(/^\/+/, ""): every leading slash removed.
RECURSIVE StripLeadingSlashes(_)
StripLeadingSlashes(s) ==
  IF s # <<>> /\ Head(s) = Slash THEN StripLeadingSlashes(Tail(s)) ELSE s

\* s.replace(/^\//, ""): one leading slash removed.
StripOneSlash(s) ==
  IF s # <<>> /\ Head(s) = Slash THEN Tail(s) ELSE s

\* s.split("/"): the segments between slashes (empty segments kept).
RECURSIVE SplitSlash(_, _, _)
SplitSlash(s, cur, acc) ==
  IF s = <<>> THEN Append(acc, cur)
  ELSE IF Head(s) = Slash THEN SplitSlash(Tail(s), <<>>, Append(acc, cur))
  ELSE SplitSlash(Tail(s), Append(cur, Head(s)), acc)

Segments(s) == SplitSlash(s, <<>>, <<>>)

\* Normalisation of an absolute path's segments: "" and "." dropped, ".."
\* pops the last kept segment (and is dropped at the root).
RECURSIVE NormalizeSegs(_, _)
NormalizeSegs(segs, out) ==
  IF segs = <<>> THEN out
  ELSE LET s == Head(segs) IN
       IF s = <<>> \/ s = <<".">> THEN NormalizeSegs(Tail(segs), out)
       ELSE IF s = <<".", ".">>
            THEN NormalizeSegs(Tail(segs),
                               IF out = <<>> THEN out
                               ELSE SubSeq(out, 1, Len(out) - 1))
            ELSE NormalizeSegs(Tail(segs), Append(out, s))

RECURSIVE JoinSegs(_)
JoinSegs(segs) ==
  IF segs = <<>> THEN <<>>
  ELSE <<Slash>> \o Head(segs) \o JoinSegs(Tail(segs))

\* path.resolve(base, rel) for an absolute base: an absolute rel replaces the
\* base, an empty rel is ignored, the result is normalised without a trailing
\* slash ("/" for the root).
resolve(base, rel) ==
  LET raw  == IF rel # <<>> /\ Head(rel) = Slash THEN rel
              ELSE base \o <<Slash>> \o rel
      segs == NormalizeSegs(Segments(raw), <<>>)
  IN IF segs = <<>> THEN <<Slash>> ELSE JoinSegs(segs)

\* ------------------------------------------------------------------------
\* Host configuration and the filesystem the daemon runs on
\* ------------------------------------------------------------------------

\* config.basePath
basePath == <<"/", "b">>
\* config.jwtSecret, and a secret the host does not hold
jwtSecret == "host-secret"
otherSecret == "other-secret"
\* config.hostId
hostId == "host-1"
\* config.portRange
PortMin == 4096
PortMax == PortMin + NumPorts - 1
Ports == PortMin..PortMax

\* Directories that exist on the machine: the base path, a project under it,
\* a sibling whose name begins with the base directory's name, and a
\* directory elsewhere.
ExistingDirs ==
  { <<"/">>, <<"/", "b">>, <<"/", "b", "/", "p">>, <<"/", "b", "/", "q">>,
    <<"/", "b", "x">>, <<"/", "x">> }

existsSync(p) == p \in ExistingDirs

\* The set of all strings over alphabet A of length at most n.
RECURSIVE StringsUpTo(_, _)
StringsUpTo(A, n) ==
  IF n = 0 THEN { <<>> }
  ELSE LET shorter == StringsUpTo(A, n - 1)
       IN shorter \cup { Append(s, c) : s \in shorter, c \in A }

PathChars == { "/", ".", "b", "x" }

\* ------------------------------------------------------------------------
\* Credentials: createJwt / verifyJwt
\* ------------------------------------------------------------------------

\* base64url(JSON.stringify(x)) and its inverse.
base64UrlEncode(x) == <<"b64", x>>
base64UrlDecode(e) == e[2]

\* createHmac("sha256", secret).update(data).digest(...)
Hmac(secret, data) == <<"hmac", secret, data>>

JwtHeader == [alg |-> "HS256", typ |-> "JWT"]

createJwt(payload, secret) ==
  LET header == base64UrlEncode(JwtHeader)
      body   == base64UrlEncode(payload)
  IN [header |-> header, body |-> body,
      sig |-> Hmac(secret, <<header, body>>)]

MsPerSec == 1000

\* ms / 1000 > sec over the reals, computed without leaving 32 bits.
MsAfterSec(ms, sec) ==
  \/ ms \div MsPerSec > sec
  \/ ms \div MsPerSec = sec /\ ms % MsPerSec > 0

\* verifyJwt without the comparison of signatures.
verifyJwtUnsigned(token, secret, allowExpired, nowMs) ==
  LET payload == base64UrlDecode(token.body)
  IN IF ~allowExpired /\ payload.exp # 0 /\ MsAfterSec(nowMs, payload.exp)
     THEN <<>>
     ELSE <<payload>>

\* verifyJwt: <<payload>> when the token verifies at time nowMs, <<>> (null)
\* otherwise.  The expiry test is `Date.now() / 1000 > payload.exp`, and an
\* exp of 0 is falsy and never expires.
verifyJwt(token, secret, allowExpired, nowMs) ==
  LET expectedSig == Hmac(secret, <<token.header, token.body>>)
      payload     == base64UrlDecode(token.body)
  IN IF token.sig # expectedSig THEN <<>>
     ELSE IF ~allowExpired /\ payload.exp # 0 /\ MsAfterSec(nowMs, payload.exp)
          THEN <<>>
          ELSE <<payload>>

\* Seconds in the 30 days a minted credential lives.
JwtLifetimeSec == 2592000

Claims(iat, exp) ==
  [sub |-> "host-authentication", hostId |-> hostId, iat |-> iat, exp |-> exp]

\* Start of the run on the daemon's clock (ms).
StartMs == 100000

\* The credentials requests may carry: none, one minted by this host and still
\* valid, one minted by this host and expired, one signed with another secret.
JwtNone == <<>>
JwtValid == << createJwt(Claims(0, JwtLifetimeSec), jwtSecret) >>
JwtExpired == << createJwt(Claims(0, 1), jwtSecret) >>
JwtForged == << createJwt(Claims(0, JwtLifetimeSec), otherSecret) >>

\* `if (!request.jwt) throw ...; if (!verifyJwt(...)) throw ...`: the error
\* message, or "" when the credential verifies.
JwtError(jwt, nowMs) ==
  IF jwt = <<>> THEN "Missing JWT"
  ELSE IF verifyJwt(jwt[1], jwtSecret, FALSE, nowMs) = <<>>
       THEN "Invalid or expired JWT"
       ELSE ""

\* ------------------------------------------------------------------------
\* State
\* ------------------------------------------------------------------------

VARIABLES
  now,              \* Date.now() (ms)
  req,              \* the requests clients have created: id -> payload
  db,               \* the queue's row of each request: status, response, tool fields
  processedIds,     \* main: the recently-seen request ids, in insertion order
  dispatched,       \* how many processRequest calls main has made for each id
  tasks,            \* each processRequest call: where it is suspended, its locals
  activeProcesses,  \* Map<directory, ActiveProcess>, in insertion order
  relaySessions,    \* Map<directory, sessionId>, as its set of entries
  pendingTools,     \* Map<requestId, PendingTool>: <<>> or <<entry>> per id
  procs,            \* the child processes spawned so far: pid -> process
  relays,           \* each relayMessageStreaming call: its stream loop's state
  sessions,         \* the sessions the workers hold: id, worker pid, busy
  toolForwards,     \* tool results POSTed to a worker's tool endpoint
  fsCalls,          \* filesystem calls made: <<request, path>>
  workerCalls,      \* HTTP calls made to a worker port: <<request, port, endpoint>>
  host              \* the daemon process and its row in the hosts table

vars == << now, req, db, processedIds, dispatched, tasks, activeProcesses, relaySessions,
           pendingTools, procs, relays, sessions, toolForwards, fsCalls,
           workerCalls, host >>

\* A request as the client creates it (requests.create).  An absent string
\* is "", an absent path <<>>, an absent port 0, an absent credential <<>>.
\* An absent session id is 0, an absent one-time code <<>>.
Request(type, jwt, path, directory, port, message, sessionId, otp) ==
  [type |-> type, jwt |-> jwt, path |-> path, directory |-> directory,
   port |-> port, message |-> message, sessionId |-> sessionId, otp |-> otp]

NoRequest == Request("none", <<>>, <<>>, <<>>, 0, "", 0, <<>>)

NoResponse ==
  [error |-> "", port |-> 0, pid |-> 0, aiResponse |-> <<>>, reasoning |-> <<>>,
   jwtToken |-> <<>>, directories |-> {}, providers |-> FALSE]

NoRow ==
  [status |-> "none", response |-> NoResponse, toolResult |-> <<>>,
   pendingTool |-> <<>>, partialResponse |-> <<>>, partialReasoning |-> <<>>]

\* A processRequest call that has not begun (task 0 is the inactivity
\* checker's callback: tickNow is its `now`, visited the map entries its loop
\* has passed).
NoTask ==
  [pc |-> "idle", err |-> "", dir |-> <<>>, port |-> 0, pid |-> 0,
   ret |-> "", response |-> NoResponse, tickNow |-> 0, visited |-> {}]

ReaperId == 0
TaskIds == {ReaperId} \cup CallIds

\* A relayMessageStreaming call that has not begun.  `received` is the
\* message.part.delta events of its session the call has read, in order;
\* pushText and pushReasoning are the arguments of the updatePartialResponse
\* mutation in flight, finalPushing tells that the forced push started it.
\* toolSession is the sessionID carried by the tool.invoke event being handled.
\* partKinds is the Map of the kinds the parts are known by ("" for a part
\* not in it), addedParts the Set of the parts whose bubble was added.
PartIds == { "P1", "P2" }

NoRelay ==
  [st |-> "none", sid |-> 0, port |-> 0, dir |-> <<>>, text |-> <<>>,
   reasoning |-> <<>>, completed |-> FALSE, settled |-> "", err |-> "",
   toolCallId |-> "", toolResult |-> <<>>, invoked |-> 0, wpid |-> 0,
   aborted |-> FALSE, received |-> <<>>, pushPending |-> FALSE,
   lastPushTime |-> 0, pushText |-> <<>>, pushReasoning |-> <<>>,
   finalPushing |-> FALSE, toolSession |-> 0,
   partKinds |-> [p \in PartIds |-> ""], addedParts |-> {}]

\* ------------------------------------------------------------------------
\* The worker map (a Map keeps insertion order; set on a present key keeps
\* the key's place)
\* ------------------------------------------------------------------------

ActiveProcess(path, port, pid, lastActivity) ==
  [path |-> path, port |-> port, pid |-> pid, lastActivity |-> lastActivity]

ApIndex(ap, dir) ==
  IF \E i \in 1..Len(ap) : ap[i].path = dir
  THEN CHOOSE i \in 1..Len(ap) : ap[i].path = dir
  ELSE 0

ApHas(ap, dir) == ApIndex(ap, dir) # 0
ApGet(ap, dir) == ap[ApIndex(ap, dir)]

ApSet(ap, rec) ==
  IF ApHas(ap, rec.path)
  THEN [ap EXCEPT ![ApIndex(ap, rec.path)] = rec]
  ELSE Append(ap, rec)

ApDelete(ap, dir) ==
  IF ApHas(ap, dir)
  THEN LET i == ApIndex(ap, dir)
       IN SubSeq(ap, 1, i - 1) \o SubSeq(ap, i + 1, Len(ap))
  ELSE ap

\* `for (const proc of activeProcesses.values()) if (proc.port === port)
\* { proc.lastActivity = Date.now(); break; }`
ApPortIndex(ap, port) ==
  IF \E i \in 1..Len(ap) : ap[i].port = port
  THEN CHOOSE i \in 1..Len(ap) :
         /\ ap[i].port = port
         /\ \A j \in 1..(i - 1) : ap[j].port # port
  ELSE 0

ApTouchPort(ap, port, t) ==
  IF ApPortIndex(ap, port) = 0 THEN ap
  ELSE [ap EXCEPT ![ApPortIndex(ap, port)].lastActivity = t]

\* ------------------------------------------------------------------------
\* Child processes
\* ------------------------------------------------------------------------

\* A spawned `opencode serve`: its working directory and port, whether it is
\* running, whether it has bound its port and answers /health, the signals
\* sent to it, and ChildProcess.killed (set when kill() has delivered a
\* signal; it says nothing about the process having exited).
Proc(dir, port) ==
  [dir |-> dir, port |-> port, state |-> "running", serving |-> FALSE,
   killed |-> FALSE, sigterm |-> FALSE, sigkill |-> FALSE]

Pids == DOMAIN procs
Running(pid) == procs[pid].state = "running"

\* child.kill(signal): delivered only to a process that has not exited.
killWith(ps, pid, signal) ==
  IF ps[pid].state # "running" THEN ps
  ELSE IF signal = "SIGKILL"
       THEN [ps EXCEPT ![pid].killed = TRUE, ![pid].sigkill = TRUE]
       ELSE [ps EXCEPT ![pid].killed = TRUE, ![pid].sigterm = TRUE]

\* Some running worker has bound the port.
PortServed(port) ==
  \E pid \in Pids : Running(pid) /\ procs[pid].serving /\ procs[pid].port = port

\* Bun.serve({port}) in findAvailablePort binds iff nothing is listening.
Bindable(port) == ~PortServed(port)

\* findAvailablePort: the first port of the range, ascending, that no tracked
\* worker holds and that binds; 0 when there is none (the function throws).
usedPorts(ap) == { ap[i].port : i \in 1..Len(ap) }

\* `for (let port = min; port <= max; port++)` from `port` on.
RECURSIVE scanPorts(_, _, _)
scanPorts(used, port, max) ==
  IF port > max THEN 0
  ELSE IF port \in used THEN scanPorts(used, port + 1, max)
  ELSE IF Bindable(port) THEN port
  ELSE scanPorts(used, port + 1, max)

\* The scan without the set of the tracked workers' ports.
findAvailablePortUntracked(ap, min, max) == scanPorts({}, min, max)

findAvailablePort(ap, min, max) == scanPorts(usedPorts(ap), min, max)

\* ------------------------------------------------------------------------
\* Initial state
\* ------------------------------------------------------------------------

\* The daemon after main has registered it online: `pc` is where shutdown()
\* is ("run" before a signal arrived), `stops` the stopOpencodeServe calls
\* shutdown() awaits, `status` the last status written to the hosts table.
NoHost == [pc |-> "run", stops |-> <<>>, status |-> "online"]

\* No code of the daemon runs after process.exit(0).
Alive == host.pc # "exited"

InitDaemon ==
  /\ now = StartMs
  /\ dispatched = [r \in ReqIds |-> 0]
  /\ tasks = [r \in TaskIds |-> NoTask]
  /\ relays = [r \in CallIds |-> NoRelay]
  /\ toolForwards = {}
  /\ relaySessions = {}
  /\ pendingTools = [r \in ReqIds |-> <<>>]
  /\ fsCalls = {}
  /\ workerCalls = {}
  /\ host = NoHost

\* ... and no session on any worker.
InitCommon == InitDaemon /\ sessions = {}

\* The daemon after main's setup: no worker, no request.
Init ==
  /\ InitCommon
  /\ processedIds = <<>>
  /\ activeProcesses = <<>>
  /\ procs = <<>>
  /\ req = [r \in ReqIds |-> NoRequest]
  /\ db = [r \in ReqIds |-> NoRow]

\* ------------------------------------------------------------------------
\* The queue and the dispatcher: requests.create, main's subscription
\* callback, processRequest
\* ------------------------------------------------------------------------

\* A client creates request r with payload q (status "pending").
Create(r, q) ==
  /\ req[r] = NoRequest
  /\ \A k \in 1..(r - 1) : req[k] # NoRequest
  /\ req' = [req EXCEPT ![r] = q]
  /\ db' = [db EXCEPT ![r].status = "pending"]
  /\ UNCHANGED << host, relays, sessions, toolForwards, now, processedIds, dispatched, tasks,
                  activeProcesses, relaySessions, pendingTools, procs,
                  fsCalls, workerCalls >>

InSeq(x, s) == \E i \in 1..Len(s) : s[i] = x

\* The cap on the recently-seen ids and the number kept by a cleanup, scaled
\* down from the source's 1000 and 500.
ProcessedCap == 2
ProcessedKeep == 1

\* A cleanup that keeps the oldest ids.
cleanupIdsOldest(ids) ==
  IF Len(ids) > ProcessedCap THEN SubSeq(ids, 1, ProcessedKeep) ELSE ids

\* `if (processedIds.size > 1000) { ... delete all but the last 500 }`
cleanupIds(ids) ==
  IF Len(ids) > ProcessedCap
  THEN SubSeq(ids, Len(ids) - ProcessedKeep + 1, Len(ids))
  ELSE ids

\* The subscription callback runs on a result in which r is the one pending
\* request whose id is not in processedIds: the id is recorded,
\* processRequest(r) is called and runs up to its first await (the
\* markProcessing mutation), and the old ids are cleaned up.
Deliver(r) ==
  /\ Alive
  /\ db[r].status = "pending"
  /\ ~InSeq(r, processedIds)
  /\ processedIds' = cleanupIds(Append(processedIds, r))
  /\ dispatched[r] < MaxCalls
  /\ dispatched' = [dispatched EXCEPT ![r] = @ + 1]
  /\ tasks' = [tasks EXCEPT ![CallOf(r, dispatched[r] + 1)].pc = "markProcessing"]
  /\ UNCHANGED << host, relays, sessions, toolForwards, now, req, db,
                  activeProcesses, relaySessions, pendingTools, procs,
                  fsCalls, workerCalls >>

\* markProcessing is applied and processRequest resumes at its switch.
MarkProcessing(r) ==
  /\ Alive
  /\ tasks[r].pc = "markProcessing"
  /\ db' = [db EXCEPT ![ReqOf(r)].status = "processing"]
  /\ tasks' = [tasks EXCEPT ![r].pc = "handler"]
  /\ UNCHANGED << host, relays, sessions, toolForwards, now, req, processedIds, dispatched,
                  activeProcesses, relaySessions, pendingTools, procs,
                  fsCalls, workerCalls >>

\* A handler threw: processRequest's catch awaits markFailed(error message).
Throw(t, msg) == [t EXCEPT !.pc = "markFailed", !.err = msg]
\* A handler awaits markCompleted(response).
Complete(t, resp) == [t EXCEPT !.pc = "markCompleted", !.response = resp]

\* A failed outcome with no message.
failedResponseBlank(err) == NoResponse

\* requests.markFailed: `response: { error }`
failedResponse(err) == [NoResponse EXCEPT !.error = err]

MarkFailed(r) ==
  /\ Alive
  /\ tasks[r].pc = "markFailed"
  /\ db' = [db EXCEPT ![ReqOf(r)].status = "failed",
                      ![ReqOf(r)].response = failedResponse(tasks[r].err)]
  /\ tasks' = [tasks EXCEPT ![r] = [NoTask EXCEPT !.pc = "done"]]
  /\ UNCHANGED << host, relays, sessions, toolForwards, now, req, processedIds, dispatched,
                  activeProcesses, relaySessions, pendingTools, procs,
                  fsCalls, workerCalls >>

MarkCompleted(r) ==
  /\ Alive
  /\ tasks[r].pc = "markCompleted"
  /\ db' = [db EXCEPT ![ReqOf(r)].status = "completed",
                      ![ReqOf(r)].response = tasks[r].response]
  /\ tasks' = [tasks EXCEPT ![r] = [NoTask EXCEPT !.pc = "done"]]
  /\ UNCHANGED << host, relays, sessions, toolForwards, now, req, processedIds, dispatched,
                  activeProcesses, relaySessions, pendingTools, procs,
                  fsCalls, workerCalls >>

\* ------------------------------------------------------------------------
\* Worker supervisor: startOpencodeServe, waitForOpencodeReady,
\* stopOpencodeServe
\* ------------------------------------------------------------------------

\* startOpencodeServe(directory) up to its first await, called by task t with
\* continuation `ret`: the record of an active directory is touched and
\* returned; otherwise a port is looked for (findAvailablePort throws when
\* there is none) and the call suspends at `await findAvailablePort(...)`.
startSync(t, ap, directory, ret) ==
  IF ApHas(ap, directory)
  THEN [t EXCEPT !.pc = "startReturned", !.ret = ret, !.dir = directory,
                 !.port = ApGet(ap, directory).port,
                 !.pid = ApGet(ap, directory).pid]
  ELSE LET port == findAvailablePort(ap, PortMin, PortMax)
       IN IF port = 0
          THEN Throw(t, "No available ports in range")
          ELSE [t EXCEPT !.pc = "spawn", !.ret = ret, !.dir = directory,
                         !.port = port]

startTouch(ap, directory, t) ==
  IF ApHas(ap, directory)
  THEN [ap EXCEPT ![ApIndex(ap, directory)].lastActivity = t]
  ELSE ap

\* handleStartOpencode up to its first await.
startPathAllowed(fullPath) == StartsWith(fullPath, basePath)

HandleStartOpencode(r) ==
  LET q        == req[ReqOf(r)]
      fullPath == resolve(basePath, StripLeadingSlashes(q.directory))
      jwtErr   == JwtError(q.jwt, now)
  IN
  /\ Alive
  /\ tasks[r].pc = "handler"
  /\ q.type = "start_opencode"
  /\ IF jwtErr # ""
     THEN /\ tasks' = [tasks EXCEPT ![r] = Throw(@, jwtErr)]
          /\ UNCHANGED << activeProcesses, fsCalls >>
     ELSE IF q.directory = <<>>
     THEN /\ tasks' = [tasks EXCEPT ![r] = Throw(@, "Missing directory")]
          /\ UNCHANGED << activeProcesses, fsCalls >>
     ELSE IF ~startPathAllowed(fullPath)
     THEN /\ tasks' = [tasks EXCEPT ![r] =
                         Throw(@, "Access denied: path outside base directory")]
          /\ UNCHANGED << activeProcesses, fsCalls >>
     ELSE IF ~existsSync(fullPath)
     THEN /\ tasks' = [tasks EXCEPT ![r] = Throw(@, "Directory not found")]
          /\ fsCalls' = fsCalls \cup { <<ReqOf(r), fullPath>> }
          /\ UNCHANGED activeProcesses
     ELSE /\ tasks' = [tasks EXCEPT ![r] =
                         startSync(@, activeProcesses, fullPath, "start")]
          /\ activeProcesses' = startTouch(activeProcesses, fullPath, now)
          /\ fsCalls' = fsCalls \cup { <<ReqOf(r), fullPath>> }
  /\ UNCHANGED << host, relays, sessions, toolForwards, now, req, db, processedIds, dispatched,
                  relaySessions, pendingTools, procs, workerCalls >>

\* After `await findAvailablePort`: spawn the child, put its record in the
\* map, register the exit handler, and begin waitForOpencodeReady.
spawnRecord(t, pid, tm) == ActiveProcess(t.dir, t.port, pid, tm)

\* updateHostStatus(): the mutation that reports the host online with the
\* records of the map; its failure is only logged.
updateHostStatus(h) == [h EXCEPT !.status = "online"]

StartSpawn(r) ==
  LET pid == Len(procs) + 1 IN
  /\ Alive
  /\ tasks[r].pc = "spawn"
  /\ pid <= MaxPid
  /\ procs' = Append(procs, Proc(tasks[r].dir, tasks[r].port))
  /\ activeProcesses' = ApSet(activeProcesses, spawnRecord(tasks[r], pid, now))
  /\ tasks' = [tasks EXCEPT ![r].pc = "waitReady", ![r].pid = pid]
  /\ UNCHANGED << host, relays, sessions, toolForwards, now, req, db, processedIds, dispatched,
                  relaySessions, pendingTools, fsCalls, workerCalls >>

\* waitForOpencodeReady: GET /health on the port answered ok.
StartReady(r) ==
  /\ Alive
  /\ tasks[r].pc = "waitReady"
  /\ PortServed(tasks[r].port)
  /\ tasks' = [tasks EXCEPT ![r].pc = "startStatus"]
  /\ workerCalls' = workerCalls \cup { <<ReqOf(r), tasks[r].port, "health">> }
  /\ host' = updateHostStatus(host)
  /\ UNCHANGED << relays, sessions, toolForwards, now, req, db, processedIds, dispatched,
                  activeProcesses, relaySessions, pendingTools, procs,
                  fsCalls >>

\* waitForOpencodeReady threw after 30 s without an ok answer: the catch block
\* of startOpencodeServe.
startupKillSignal == "SIGTERM"

StartTimeout(r) ==
  /\ Alive
  /\ tasks[r].pc = "waitReady"
  /\ ~PortServed(tasks[r].port)
  /\ procs' = killWith(procs, tasks[r].pid, startupKillSignal)
  /\ activeProcesses' = ApDelete(activeProcesses, tasks[r].dir)
  /\ tasks' = [tasks EXCEPT ![r] = Throw(@, "opencode serve failed to start")]
  /\ workerCalls' = workerCalls \cup { <<ReqOf(r), tasks[r].port, "health">> }
  /\ UNCHANGED << host, relays, sessions, toolForwards, now, req, db, processedIds, dispatched,
                  relaySessions, pendingTools, fsCalls >>

\* `await updateHostStatus()` at the end of startOpencodeServe is done; the
\* call returns {port, pid: child.pid}.
StartStatusDone(r) ==
  /\ Alive
  /\ tasks[r].pc = "startStatus"
  /\ tasks' = [tasks EXCEPT ![r].pc = "startReturned"]
  /\ UNCHANGED << host, relays, sessions, toolForwards, now, req, db, processedIds, dispatched,
                  activeProcesses, relaySessions, pendingTools, procs,
                  fsCalls, workerCalls >>

\* handleStartOpencode resumes with {port, pid} and awaits
\* getOpencodeSessions(port).
StartReturned(r) ==
  /\ Alive
  /\ tasks[r].pc = "startReturned"
  /\ tasks[r].ret = "start"
  /\ tasks' = [tasks EXCEPT ![r].pc = "getSessions"]
  /\ workerCalls' = workerCalls \cup { <<ReqOf(r), tasks[r].port, "session">> }
  /\ UNCHANGED << host, relays, sessions, toolForwards, now, req, db, processedIds, dispatched,
                  activeProcesses, relaySessions, pendingTools, procs,
                  fsCalls >>

\* The session list arrived or failed (a failure is only logged); the handler
\* awaits markCompleted({port, pid, sessionsJson}).
GetSessionsDone(r) ==
  /\ Alive
  /\ tasks[r].pc = "getSessions"
  /\ tasks' = [tasks EXCEPT ![r] =
       Complete(@, [NoResponse EXCEPT !.port = tasks[r].port,
                                      !.pid = tasks[r].pid])]
  /\ UNCHANGED << host, relays, sessions, toolForwards, now, req, db, processedIds, dispatched,
                  activeProcesses, relaySessions, pendingTools, procs,
                  fsCalls, workerCalls >>

\* stopOpencodeServe(directory) up to its await, called by task t with
\* continuation `ret`: nothing to do without a record; otherwise SIGTERM is
\* sent and the call waits for the child's exit event or the 5 s timer.
stopSync(t, ap, directory, ret) ==
  IF ~ApHas(ap, directory)
  THEN [t EXCEPT !.pc = "stopReturned", !.ret = ret, !.dir = directory, !.pid = 0]
  ELSE [t EXCEPT !.pc = "stopWait", !.ret = ret, !.dir = directory,
                 !.pid = ApGet(ap, directory).pid]

stopSignal(ps, ap, directory) ==
  IF ~ApHas(ap, directory) THEN ps
  ELSE killWith(ps, ApGet(ap, directory).pid, "SIGTERM")

HandleStopOpencode(r) ==
  LET q        == req[ReqOf(r)]
      fullPath == resolve(basePath, StripLeadingSlashes(q.directory))
      jwtErr   == JwtError(q.jwt, now)
  IN
  /\ Alive
  /\ tasks[r].pc = "handler"
  /\ q.type = "stop_opencode"
  /\ IF jwtErr # ""
     THEN /\ tasks' = [tasks EXCEPT ![r] = Throw(@, jwtErr)]
          /\ UNCHANGED procs
     ELSE IF q.directory = <<>>
     THEN /\ tasks' = [tasks EXCEPT ![r] = Throw(@, "Missing directory")]
          /\ UNCHANGED procs
     ELSE /\ tasks' = [tasks EXCEPT ![r] =
                         stopSync(@, activeProcesses, fullPath, "stop")]
          /\ procs' = stopSignal(procs, activeProcesses, fullPath)
  /\ UNCHANGED << host, relays, sessions, toolForwards, now, req, db, processedIds, dispatched,
                  activeProcesses, relaySessions, pendingTools, fsCalls,
                  workerCalls >>

\* After the wait stopOpencodeServe deletes the record and the relay session
\* cached under `directory`, then awaits updateHostStatus().  The wait's
\* promise is resolved inside the timer callback or the exit listener, and
\* the continuation runs before any other callback of the event loop.
stopDeleteSession(rs, directory) == { e \in rs : e.dir # directory }

stopResume(stop) == [stop EXCEPT !.pc = "stopStatus"]

\* The 5 s timer of stopOpencodeServe fires before the exit event:
\* `if (!proc.childProcess.killed) proc.childProcess.kill("SIGKILL")`.
stopTimerKill(ps, pid) ==
  IF ~ps[pid].killed THEN killWith(ps, pid, "SIGKILL") ELSE ps

StopTimeout(r) ==
  /\ Alive
  /\ tasks[r].pc = "stopWait"
  /\ procs' = stopTimerKill(procs, tasks[r].pid)
  /\ activeProcesses' = ApDelete(activeProcesses, tasks[r].dir)
  /\ relaySessions' = stopDeleteSession(relaySessions, tasks[r].dir)
  /\ tasks' = [tasks EXCEPT ![r] = stopResume(@)]
  /\ host' = updateHostStatus(host)
  /\ UNCHANGED << relays, sessions, toolForwards, now, req, db, processedIds, dispatched,
                  pendingTools, fsCalls, workerCalls >>

StopStatusDone(r) ==
  /\ Alive
  /\ tasks[r].pc = "stopStatus"
  /\ tasks' = [tasks EXCEPT ![r].pc = "stopReturned"]
  /\ UNCHANGED << host, relays, sessions, toolForwards, now, req, db, processedIds, dispatched,
                  activeProcesses, relaySessions, pendingTools, procs,
                  fsCalls, workerCalls >>

\* handleStopOpencode resumes and awaits markCompleted({}).
StopReturned(r) ==
  /\ Alive
  /\ tasks[r].pc = "stopReturned"
  /\ tasks[r].ret = "stop"
  /\ tasks' = [tasks EXCEPT ![r] = Complete(@, NoResponse)]
  /\ UNCHANGED << host, relays, sessions, toolForwards, now, req, db, processedIds, dispatched,
                  activeProcesses, relaySessions, pendingTools, procs,
                  fsCalls, workerCalls >>

\* ------------------------------------------------------------------------
\* The child processes' own steps
\* ------------------------------------------------------------------------

\* A running worker binds its port (if nothing else holds it) and answers
\* /health from then on.
ProcServe(pid) ==
  /\ pid \in Pids
  /\ Running(pid)
  /\ ~procs[pid].serving
  /\ ~PortServed(procs[pid].port)
  /\ procs' = [procs EXCEPT ![pid].serving = TRUE]
  /\ UNCHANGED << host, relays, sessions, toolForwards, now, req, db, processedIds, dispatched,
                  tasks, activeProcesses, relaySessions, pendingTools,
                  fsCalls, workerCalls >>

\* The process exits (on a signal, or on its own) and, while the daemon
\* lives, its "exit" event runs the listeners: the one startOpencodeServe
\* registered deletes the record under the process's directory and calls
\* updateHostStatus(); the one of each stopOpencodeServe waiting for this
\* process resolves that wait, and the call goes on to its deletes.

\* An exit listener that leaves the map alone.
exitHandlerKeep(ap, pid) == ap

exitHandlerDelete(ap, pid) == ApDelete(ap, procs[pid].dir)

WaitsFor(stop, pid) == stop.pc = "stopWait" /\ stop.pid = pid

exitResolve(stop, pid) == IF WaitsFor(stop, pid) THEN stopResume(stop) ELSE stop

\* The directories of the stopOpencodeServe calls waiting for process pid.
ResolvedDirs(pid) ==
  { tasks[t].dir : t \in { u \in DOMAIN tasks : WaitsFor(tasks[u], pid) } }
    \cup { host.stops[i].dir :
             i \in { j \in DOMAIN host.stops : WaitsFor(host.stops[j], pid) } }

ProcExit(pid) ==
  /\ pid \in Pids
  /\ Running(pid)
  /\ procs' = [procs EXCEPT ![pid].state = "exited", ![pid].serving = FALSE]
  /\ IF host.pc = "exited"
     THEN UNCHANGED << activeProcesses, relaySessions, tasks, host >>
     ELSE /\ activeProcesses' =
               SelectSeq(exitHandlerDelete(activeProcesses, pid),
                         LAMBDA rec : rec.path \notin ResolvedDirs(pid))
          /\ relaySessions' = { e \in relaySessions : e.dir \notin ResolvedDirs(pid) }
          /\ tasks' = [r \in DOMAIN tasks |-> exitResolve(tasks[r], pid)]
          /\ host' = [updateHostStatus(host) EXCEPT
               !.stops = [i \in DOMAIN host.stops |->
                            exitResolve(host.stops[i], pid)]]
  /\ UNCHANGED << relays, sessions, toolForwards, now, req, db, processedIds, dispatched,
                  pendingTools, fsCalls, workerCalls >>

\* ------------------------------------------------------------------------
\* Heartbeat and graceful shutdown
\* ------------------------------------------------------------------------

\* The interval callback of startHeartbeat.
Heartbeat ==
  /\ Alive
  /\ host' = updateHostStatus(host)
  /\ UNCHANGED << relays, sessions, toolForwards, now, req, db, processedIds, dispatched,
                  tasks, activeProcesses, relaySessions, pendingTools, procs,
                  fsCalls, workerCalls >>

\* shutdown() on SIGINT or SIGTERM, up to `await Promise.all(promises)`:
\* stopOpencodeServe is called for every key the map holds now, and each call
\* runs to its await, sending SIGTERM to the recorded child.
shutdownStops(ap) ==
  [i \in 1..Len(ap) |-> [dir |-> ap[i].path, pid |-> ap[i].pid, pc |-> "stopWait"]]

RECURSIVE shutdownSignal(_, _, _)
shutdownSignal(ps, ap, i) ==
  IF i > Len(ap) THEN ps
  ELSE shutdownSignal(stopSignal(ps, ap, ap[i].path), ap, i + 1)

Shutdown ==
  /\ Alive
  /\ host.pc = "run"
  /\ host' = [host EXCEPT !.pc = "stopping", !.stops = shutdownStops(activeProcesses)]
  /\ procs' = shutdownSignal(procs, activeProcesses, 1)
  /\ UNCHANGED << relays, sessions, toolForwards, now, req, db, processedIds, dispatched,
                  tasks, activeProcesses, relaySessions, pendingTools,
                  fsCalls, workerCalls >>

\* The 5 s timer of one of shutdown's stopOpencodeServe calls fires and the
\* call goes on to its deletes and `await updateHostStatus()`.
ShutdownStopTimeout(i) ==
  /\ Alive
  /\ i \in DOMAIN host.stops
  /\ host.stops[i].pc = "stopWait"
  /\ procs' = stopTimerKill(procs, host.stops[i].pid)
  /\ activeProcesses' = ApDelete(activeProcesses, host.stops[i].dir)
  /\ relaySessions' = stopDeleteSession(relaySessions, host.stops[i].dir)
  /\ host' = [updateHostStatus(host) EXCEPT !.stops[i] = stopResume(@)]
  /\ UNCHANGED << relays, sessions, toolForwards, now, req, db, processedIds, dispatched,
                  tasks, pendingTools, fsCalls, workerCalls >>

ShutdownStopStatusDone(i) ==
  /\ Alive
  /\ i \in DOMAIN host.stops
  /\ host.stops[i].pc = "stopStatus"
  /\ host' = [host EXCEPT !.stops[i].pc = "stopReturned"]
  /\ UNCHANGED << relays, sessions, toolForwards, now, req, db, processedIds, dispatched,
                  tasks, activeProcesses, relaySessions, pendingTools, procs,
                  fsCalls, workerCalls >>

\* Promise.all resolved: `await convex.mutation(api.hosts.markOffline, ...)`.
markOffline(h) == [h EXCEPT !.status = "offline"]

ShutdownMarkOffline ==
  /\ Alive
  /\ host.pc = "stopping"
  /\ \A i \in DOMAIN host.stops : host.stops[i].pc = "stopReturned"
  /\ host' = [markOffline(host) EXCEPT !.pc = "markOffline"]
  /\ UNCHANGED << relays, sessions, toolForwards, now, req, db, processedIds, dispatched,
                  tasks, activeProcesses, relaySessions, pendingTools, procs,
                  fsCalls, workerCalls >>

\* The mutation answered or failed: process.exit(0).
ShutdownExit ==
  /\ Alive
  /\ host.pc = "markOffline"
  /\ host' = [host EXCEPT !.pc = "exited"]
  /\ UNCHANGED << relays, sessions, toolForwards, now, req, db, processedIds, dispatched,
                  tasks, activeProcesses, relaySessions, pendingTools, procs,
                  fsCalls, workerCalls >>

\* ------------------------------------------------------------------------
\* Message relay: handleRelayMessage, getOrCreateSession,
\* relayMessageStreaming, pollAndSubmitToolResult
\* ------------------------------------------------------------------------

\* The running worker that has bound the port (0 when there is none).
ServingPid(port) ==
  IF PortServed(port)
  THEN CHOOSE pid \in Pids :
         Running(pid) /\ procs[pid].serving /\ procs[pid].port = port
  ELSE 0

RsHas(rs, dir) == \E e \in rs : e.dir = dir
RsGet(rs, dir) == (CHOOSE e \in rs : e.dir = dir).sid
RsSet(rs, dir, sid) == { e \in rs : e.dir # dir } \cup { [dir |-> dir, sid |-> sid] }

\* An acquisition that looks at the directory's binding before the caller's
\* session id.
relayBeginBound(rl, port, directory, preferred, rs) ==
  IF RsHas(rs, directory)
  THEN [rl EXCEPT !.st = "sessionStatus", !.port = port, !.dir = directory,
                  !.sid = RsGet(rs, directory)]
  ELSE IF preferred # 0
       THEN [rl EXCEPT !.st = "connect", !.port = port, !.dir = directory,
                       !.sid = preferred]
       ELSE [rl EXCEPT !.st = "sessionCreate", !.port = port, !.dir = directory]

\* relayMessageStreaming(port, ..., directory, ..., preferredSessionId) up to
\* the first await of getOrCreateSession: a preferred session is used as it
\* is (the stream connection is opened next); a cached relay session has its
\* status fetched; otherwise a session is created.
relayBegin(rl, port, directory, preferred, rs) ==
  IF preferred # 0
  THEN [rl EXCEPT !.st = "connect", !.port = port, !.dir = directory,
                  !.sid = preferred]
  ELSE IF RsHas(rs, directory)
       THEN [rl EXCEPT !.st = "sessionStatus", !.port = port, !.dir = directory,
                       !.sid = RsGet(rs, directory)]
       ELSE [rl EXCEPT !.st = "sessionCreate", !.port = port, !.dir = directory]

\* `const relayDirectory = directory || "unknown"`
relayDirectory(directory) ==
  IF directory = <<>> THEN <<"u", "n", "k", "n", "o", "w", "n">> ELSE directory

\* The directory handleRelayMessage restarts a worker in.
relayRestartPath(directory) == resolve(basePath, StripOneSlash(directory))

\* The error of a relay to a port that no record holds.
noActiveErrorUnnamed(port) == "No active opencode serve"

noActiveError(port) == "No active opencode serve on port " \o ToString(port)

HandleRelayMessage(r) ==
  LET q      == req[ReqOf(r)]
      jwtErr == JwtError(q.jwt, now)
      found  == ApPortIndex(activeProcesses, q.port) # 0
  IN
  /\ Alive
  /\ tasks[r].pc = "handler"
  /\ q.type = "relay_message"
  /\ IF jwtErr # ""
     THEN /\ tasks' = [tasks EXCEPT ![r] = Throw(@, jwtErr)]
          /\ UNCHANGED << activeProcesses, relays >>
     ELSE IF q.message = ""
     THEN /\ tasks' = [tasks EXCEPT ![r] = Throw(@, "Missing message")]
          /\ UNCHANGED << activeProcesses, relays >>
     ELSE IF q.port = 0
     THEN /\ tasks' = [tasks EXCEPT ![r] = Throw(@, "Missing port")]
          /\ UNCHANGED << activeProcesses, relays >>
     ELSE IF found
     THEN /\ activeProcesses' = ApTouchPort(activeProcesses, q.port, now)
          /\ tasks' = [tasks EXCEPT ![r].pc = "relayAwait", ![r].port = q.port]
          /\ relays' = [relays EXCEPT ![r] =
               relayBegin(@, q.port, relayDirectory(q.directory), q.sessionId,
                          relaySessions)]
     ELSE IF q.directory # <<>>
     THEN /\ tasks' = [tasks EXCEPT ![r] =
               startSync(@, activeProcesses, relayRestartPath(q.directory),
                         "relay")]
          /\ activeProcesses' =
               startTouch(activeProcesses, relayRestartPath(q.directory), now)
          /\ UNCHANGED relays
     ELSE /\ tasks' = [tasks EXCEPT ![r] =
               Throw(@, noActiveError(q.port))]
          /\ UNCHANGED << activeProcesses, relays >>
  /\ UNCHANGED << host, sessions, toolForwards, now, req, db, processedIds, dispatched,
                  relaySessions, pendingTools, procs, fsCalls, workerCalls >>

\* handleRelayMessage resumes after the restart with activePort = result.port.
RelayRestarted(r) ==
  /\ Alive
  /\ tasks[r].pc = "startReturned"
  /\ tasks[r].ret = "relay"
  /\ tasks' = [tasks EXCEPT ![r].pc = "relayAwait"]
  /\ relays' = [relays EXCEPT ![r] =
       relayBegin(@, tasks[r].port, relayDirectory(req[ReqOf(r)].directory),
                  req[ReqOf(r)].sessionId, relaySessions)]
  /\ UNCHANGED << host, sessions, toolForwards, now, req, db, processedIds, dispatched,
                  activeProcesses, relaySessions, pendingTools, procs,
                  fsCalls, workerCalls >>

\* The promise of relayMessageStreaming settles once: the first resolve or
\* reject stands.
settle(rl, how, err) ==
  IF rl.settled # "" THEN rl
  ELSE [rl EXCEPT !.settled = how, !.err = err]

SessionOf(sid, pid) == { x \in sessions : x.sid = sid /\ x.pid = pid }

\* getOrCreateSession: the answer to GET /session/status.  The cached session
\* is returned only when the worker reports it idle; busy, unknown to this
\* worker, or a failed fetch, all lead to creating a session.
SessionStatus(r) ==
  LET rl  == relays[r]
      w   == ServingPid(rl.port)
      own == SessionOf(rl.sid, w)
  IN
  /\ Alive
  /\ rl.st = "sessionStatus"
  /\ relays' = [relays EXCEPT ![r].st =
       IF w # 0 /\ own # {} /\ \A x \in own : ~x.busy
       THEN "connect" ELSE "sessionCreate"]
  /\ workerCalls' = workerCalls \cup { <<ReqOf(r), rl.port, "session/status">> }
  /\ UNCHANGED << host, sessions, toolForwards, now, req, db, processedIds, dispatched, tasks,
                  activeProcesses, relaySessions, pendingTools, procs,
                  fsCalls >>

\* getOrCreateSession: the answer to POST /session.  The new id is cached
\* under the directory the relay was given.
SessionCreate(r) ==
  LET rl    == relays[r]
      w     == ServingPid(rl.port)
      newId == Cardinality(sessions) + 1
  IN
  /\ Alive
  /\ rl.st = "sessionCreate"
  /\ IF w # 0
     THEN /\ newId <= MaxSessions
          /\ sessions' = sessions \cup { [sid |-> newId, pid |-> w, busy |-> FALSE] }
          /\ relaySessions' = RsSet(relaySessions, rl.dir, newId)
          /\ relays' = [relays EXCEPT ![r].st = "connect", ![r].sid = newId]
     ELSE /\ relays' = [relays EXCEPT ![r] =
               settle([@ EXCEPT !.st = "ended"], "rejected", "fetch failed")]
          /\ UNCHANGED << sessions, relaySessions >>
  /\ workerCalls' = workerCalls \cup { <<ReqOf(r), rl.port, "session">> }
  /\ UNCHANGED << host, toolForwards, now, req, db, processedIds, dispatched, tasks,
                  activeProcesses, pendingTools, procs, fsCalls >>

\* A connection attempt after which the prompt is sent whatever the answer.
SseConnectAnyway(r) ==
  LET rl == relays[r]
      w  == ServingPid(rl.port)
  IN
  /\ Alive
  /\ rl.st = "connect"
  /\ ~rl.aborted
  /\ relays' = [relays EXCEPT ![r] = [@ EXCEPT !.st = "prompt", !.wpid = w]]
  /\ workerCalls' = workerCalls \cup { <<ReqOf(r), rl.port, "event">> }
  /\ UNCHANGED << host, sessions, toolForwards, now, req, db, processedIds, dispatched, tasks,
                  activeProcesses, relaySessions, pendingTools, procs,
                  fsCalls >>

\* The answer to GET /event: connected (the prompt is sent next), or the
\* connection failed and the call rejects.
SseConnect(r) ==
  LET rl == relays[r]
      w  == ServingPid(rl.port)
  IN
  /\ Alive
  /\ rl.st = "connect"
  /\ ~rl.aborted
  /\ relays' = [relays EXCEPT ![r] =
       IF w # 0 THEN [@ EXCEPT !.st = "prompt", !.wpid = w]
       ELSE settle([@ EXCEPT !.st = "ended"], "rejected", "SSE connection failed")]
  /\ workerCalls' = workerCalls \cup { <<ReqOf(r), rl.port, "event">> }
  /\ UNCHANGED << host, sessions, toolForwards, now, req, db, processedIds, dispatched, tasks,
                  activeProcesses, relaySessions, pendingTools, procs,
                  fsCalls >>

\* The answer to POST /session/:id/prompt_async: accepted by the worker that
\* holds the session (which turns busy), an error status otherwise.
RelayPrompt(r) ==
  LET rl  == relays[r]
      w   == ServingPid(rl.port)
      own == SessionOf(rl.sid, w)
  IN
  /\ Alive
  /\ rl.st = "prompt"
  /\ ~rl.aborted
  /\ IF w # 0 /\ own # {}
     THEN /\ sessions' = (sessions \ own)
                           \cup { [sid |-> rl.sid, pid |-> w, busy |-> TRUE] }
          /\ relays' = [relays EXCEPT ![r].st = "stream"]
     ELSE /\ relays' = [relays EXCEPT ![r] =
               settle([@ EXCEPT !.st = "ended"], "rejected", "prompt_async failed")]
          /\ UNCHANGED sessions
  /\ workerCalls' = workerCalls \cup { <<ReqOf(r), rl.port, "prompt_async">> }
  /\ UNCHANGED << host, toolForwards, now, req, db, processedIds, dispatched, tasks,
                  activeProcesses, relaySessions, pendingTools, procs,
                  fsCalls >>

\* The worker a relay streams from is generating for the relay's session.
Generating(rl) ==
  /\ rl.st = "stream"
  /\ ~rl.aborted
  /\ rl.wpid \in Pids
  /\ Running(rl.wpid)
  /\ \E x \in SessionOf(rl.sid, rl.wpid) : x.busy

\* PUSH_INTERVAL_MS
PushIntervalMs == 150

\* A push that does not look at the time of the last one.
pushBeginUnthrottled(rl, force, nowMs) ==
  IF rl.pushPending THEN rl
  ELSE IF rl.text = <<>> /\ rl.reasoning = <<>> THEN rl
  ELSE [rl EXCEPT !.pushPending = TRUE, !.lastPushTime = nowMs,
                  !.pushText = rl.text, !.pushReasoning = rl.reasoning]

\* pushPartialToConvex(force) up to its await: nothing when a push is in
\* flight, when the last push is less than the interval ago (unless forced),
\* or when nothing has been accumulated; otherwise the mutation is called
\* with the accumulators as they are now.
pushBegin(rl, force, nowMs) ==
  IF rl.pushPending THEN rl
  ELSE IF ~force /\ nowMs - rl.lastPushTime < PushIntervalMs THEN rl
  ELSE IF rl.text = <<>> /\ rl.reasoning = <<>> THEN rl
  ELSE [rl EXCEPT !.pushPending = TRUE, !.lastPushTime = nowMs,
                  !.pushText = rl.text, !.pushReasoning = rl.reasoning]

\* requests.updatePartialResponse: an empty text or reasoning is passed as
\* undefined and leaves its field alone.
updatePartialResponse(row, text, reasoning) ==
  [row EXCEPT !.partialResponse = IF text = <<>> THEN @ ELSE text,
              !.partialReasoning = IF reasoning = <<>> THEN @ ELSE reasoning]

\* The accumulator keeping the last delta only.
lastDelta(acc, delta) == delta

\* `accumulatedText += delta`, `accumulatedReasoning += delta`
appendDelta(acc, delta) == acc \o delta

\* A message.part.delta event of the relay's session: the delta is appended
\* to the accumulator of its kind (the kind the part is known by, or the one
\* the event's type names) and the activity callback touches the first
\* record on the relay's port.
RelayDelta(r, kind, delta) ==
  LET rl == relays[r] IN
  /\ Alive
  /\ Generating(rl)
  /\ Len(rl.received) < MaxDeltas
  /\ relays' = [relays EXCEPT ![r] =
       [(IF kind = "reasoning"
         THEN [@ EXCEPT !.reasoning = appendDelta(@, delta)]
         ELSE [@ EXCEPT !.text = appendDelta(@, delta)])
        EXCEPT !.received = Append(@, [kind |-> kind, delta |-> delta])]]
  /\ activeProcesses' = ApTouchPort(activeProcesses, rl.port, now)
  /\ UNCHANGED << host, sessions, toolForwards, now, req, db, processedIds, dispatched, tasks,
                  relaySessions, pendingTools, procs, fsCalls, workerCalls >>

\* The part types an event may carry ("" when it carries none).
PartTypes == { "", "text", "reasoning", "thinking", "tool" }

\* `normalizedType.includes("reasoning") || normalizedType.includes("thinking")
\* ? "reasoning" : "text"`
kindOfType(type) == IF type \in { "reasoning", "thinking" } THEN "reasoning" ELSE "text"

\* `(partId ? partKinds.get(partId) : undefined) || kindOfType(type)`
partKindOf(partKinds, partId, type) ==
  IF partId # "" /\ partKinds[partId] # "" THEN partKinds[partId]
  ELSE kindOfType(type)

\* A message.part.delta event of the relay's session carrying a part id
\* ("" when it carries none) and a type: the delta goes to the accumulator
\* of the kind the part is known by, or else of the kind its type names; a
\* part not yet known is recorded with that kind; the activity callback runs.
RelayPartDelta(r, partId, type, delta) ==
  LET rl   == relays[r]
      kind == partKindOf(rl.partKinds, partId, type)
  IN
  /\ Alive
  /\ Generating(rl)
  /\ Len(rl.received) < MaxDeltas
  /\ relays' = [relays EXCEPT ![r] =
       [(IF kind = "reasoning"
         THEN [@ EXCEPT !.reasoning = appendDelta(@, delta)]
         ELSE [@ EXCEPT !.text = appendDelta(@, delta)])
        EXCEPT !.received = Append(@, [kind |-> kind, delta |-> delta, part |-> partId]),
               !.partKinds = IF partId # "" /\ @[partId] = ""
                             THEN [@ EXCEPT ![partId] = kind] ELSE @]]
  /\ activeProcesses' = ApTouchPort(activeProcesses, rl.port, now)
  /\ UNCHANGED << host, sessions, toolForwards, now, req, db, processedIds, dispatched, tasks,
                  relaySessions, pendingTools, procs, fsCalls, workerCalls >>

\* A message.part.added event of the relay's session with a part id and a
\* type: the part is recorded with the kind its type names, whatever kind it
\* was known by; a part not added before is added to the request's row (an
\* awaited mutation).
RelayPartAdded(r, partId, type) ==
  LET rl == relays[r] IN
  /\ Alive
  /\ Generating(rl)
  /\ partId # "" /\ type # ""
  /\ relays' = [relays EXCEPT ![r] =
       [@ EXCEPT !.partKinds = [@ EXCEPT ![partId] = kindOfType(type)],
                 !.addedParts = @ \cup { partId },
                 !.st = IF partId \in rl.addedParts THEN @ ELSE "partAddPart"]]
  /\ UNCHANGED << host, sessions, toolForwards, now, req, db, processedIds, dispatched, tasks,
                  activeProcesses, relaySessions, pendingTools, procs,
                  fsCalls, workerCalls >>

\* addMessagePart of a part's bubble is done; the loop reads on.
PartAddDone(r) ==
  /\ Alive
  /\ relays[r].st = "partAddPart"
  /\ relays' = [relays EXCEPT ![r].st = "stream"]
  /\ UNCHANGED << host, sessions, toolForwards, now, req, db, processedIds, dispatched, tasks,
                  activeProcesses, relaySessions, pendingTools, procs,
                  fsCalls, workerCalls >>

\* The push interval's callback while the stream is read or a tool is waited
\* for: with text accumulated and the relay not completed it starts a push,
\* unless pushPartialToConvex throttles or skips it.
RelayPushTick(r) ==
  LET rl == relays[r] IN
  /\ Alive
  /\ rl.st \in { "stream", "toolAddPart", "toolSetPending", "toolPoll",
                 "toolForward" }
  /\ ~rl.aborted
  /\ rl.text # <<>>
  /\ ~rl.completed
  /\ pushBegin(rl, FALSE, now) # rl
  /\ relays' = [relays EXCEPT ![r] = pushBegin(rl, FALSE, now)]
  /\ UNCHANGED << host, sessions, toolForwards, now, req, db, processedIds, dispatched, tasks,
                  activeProcesses, relaySessions, pendingTools, procs,
                  fsCalls, workerCalls >>

\* The updatePartialResponse mutation of an interval push is applied.
RelayPushDone(r) ==
  LET rl == relays[r] IN
  /\ Alive
  /\ rl.pushPending
  /\ ~rl.finalPushing
  /\ db' = [db EXCEPT ![ReqOf(r)] =
       updatePartialResponse(@, rl.pushText, rl.pushReasoning)]
  /\ relays' = [relays EXCEPT ![r].pushPending = FALSE]
  /\ UNCHANGED << host, sessions, toolForwards, now, req, processedIds, dispatched, tasks,
                  activeProcesses, relaySessions, pendingTools, procs,
                  fsCalls, workerCalls >>

\* A session.status idle event of the relay's session: completed is set and
\* the final push, pushPartialToConvex(true), is awaited.
RelayIdle(r) ==
  LET rl   == [relays[r] EXCEPT !.st = "finalPush", !.completed = TRUE]
      push == pushBegin(rl, TRUE, now)
  IN
  /\ Alive
  /\ Generating(relays[r])
  /\ sessions' = (sessions \ SessionOf(rl.sid, rl.wpid))
                   \cup { [sid |-> rl.sid, pid |-> rl.wpid, busy |-> FALSE] }
  /\ relays' = [relays EXCEPT ![r] = [push EXCEPT !.finalPushing = push # rl]]
  /\ UNCHANGED << host, toolForwards, now, req, db, processedIds, dispatched, tasks,
                  activeProcesses, relaySessions, pendingTools, procs,
                  fsCalls, workerCalls >>

\* After the final push (its mutation applied, if it called one): timers
\* cleared, the stream aborted, the call resolves with the accumulated text
\* and reasoning.
RelayFinalPushDone(r) ==
  LET rl == relays[r] IN
  /\ Alive
  /\ rl.st = "finalPush"
  /\ db' = IF rl.finalPushing
           THEN [db EXCEPT ![ReqOf(r)] =
                   updatePartialResponse(@, rl.pushText, rl.pushReasoning)]
           ELSE db
  /\ relays' = [relays EXCEPT ![r] =
       settle([@ EXCEPT !.st = "ended", !.finalPushing = FALSE,
                        !.pushPending = IF rl.finalPushing THEN FALSE ELSE @],
              "resolved", "")]
  /\ UNCHANGED << host, sessions, toolForwards, now, req, processedIds, dispatched, tasks,
                  activeProcesses, relaySessions, pendingTools, procs,
                  fsCalls, workerCalls >>

ToolIds == { "T1", "T2" }
ToolResults == { "A", "B" }

\* The handler of a tool.invoke event with tool-call id `id`, whatever
\* session the event names: the tool part is added to the request's row first
\* (an awaited mutation).
toolInvoke(rl, id, eventSid) ==
  [rl EXCEPT !.st = "toolAddPart", !.toolCallId = id, !.invoked = @ + 1,
             !.toolSession = eventSid]

\* A tool.invoke event of the relay's session.
RelayToolInvoke(r, id) ==
  LET rl == relays[r] IN
  /\ Alive
  /\ Generating(rl)
  /\ rl.invoked < MaxTools
  /\ relays' = [relays EXCEPT ![r] = toolInvoke(@, id, rl.sid)]
  /\ UNCHANGED << host, sessions, toolForwards, now, req, db, processedIds, dispatched, tasks,
                  activeProcesses, relaySessions, pendingTools, procs,
                  fsCalls, workerCalls >>

\* addMessagePart is done; setPendingTool is sent.
ToolPartAdded(r) ==
  /\ Alive
  /\ relays[r].st = "toolAddPart"
  /\ relays' = [relays EXCEPT ![r].st = "toolSetPending"]
  /\ UNCHANGED << host, sessions, toolForwards, now, req, db, processedIds, dispatched, tasks,
                  activeProcesses, relaySessions, pendingTools, procs,
                  fsCalls, workerCalls >>

PendingTool(toolCallId, sessionId, port) ==
  [toolCallId |-> toolCallId, sessionId |-> sessionId, port |-> port]

\* setPendingTool is applied to the row; the invocation is tracked in
\* pendingTools and pollAndSubmitToolResult begins.
ToolPendingSet(r) ==
  LET rl == relays[r] IN
  /\ Alive
  /\ rl.st = "toolSetPending"
  /\ db' = [db EXCEPT ![ReqOf(r)].pendingTool = << rl.toolCallId >>]
  /\ pendingTools' = [pendingTools EXCEPT ![ReqOf(r)] =
       << PendingTool(rl.toolCallId, rl.sid, rl.port) >>]
  /\ relays' = [relays EXCEPT ![r].st = "toolPoll"]
  /\ UNCHANGED << host, sessions, toolForwards, now, req, processedIds, dispatched, tasks,
                  activeProcesses, relaySessions, procs, fsCalls,
                  workerCalls >>

\* requests.submitToolResult: a client writes a tool result, with the
\* tool-call id it names, to the row of a request (the mutation patches the
\* row whatever its pendingTool is).
SubmitToolResult(r, id, result) ==
  /\ req[r] # NoRequest
  /\ db[r].toolResult # << [toolCallId |-> id, result |-> result] >>
  /\ db' = [db EXCEPT ![r].toolResult = << [toolCallId |-> id, result |-> result] >>]
  /\ UNCHANGED << host, relays, sessions, toolForwards, now, req, processedIds, dispatched,
                  tasks, activeProcesses, relaySessions, pendingTools, procs,
                  fsCalls, workerCalls >>

\* pollAndSubmitToolResult: whether a polled getToolStatus answer ends the
\* wait for the invocation with tool-call id `pending`.
pollAccepts(toolResult, pending) == toolResult # <<>>

\* One poll found a result: it is POSTed to /session/:id/tool.
ToolPoll(r) ==
  LET rl == relays[r] IN
  /\ Alive
  /\ rl.st = "toolPoll"
  /\ pollAccepts(db[ReqOf(r)].toolResult, rl.toolCallId)
  /\ relays' = [relays EXCEPT ![r].st = "toolForward",
                              ![r].toolResult = db[ReqOf(r)].toolResult]
  /\ UNCHANGED << host, sessions, toolForwards, now, req, db, processedIds, dispatched, tasks,
                  activeProcesses, relaySessions, pendingTools, procs,
                  fsCalls, workerCalls >>

\* The answer to the POST: a worker that received it answers ok and the
\* invocation is untracked; a failed fetch is swallowed by the event loop's
\* catch.  Either way stream consumption resumes.
ToolForwardDone(r) ==
  LET rl == relays[r]
      w  == ServingPid(rl.port)
  IN
  /\ Alive
  /\ rl.st = "toolForward"
  /\ IF w # 0
     THEN /\ toolForwards' = toolForwards \cup
               { [req |-> ReqOf(r), port |-> rl.port, sid |-> rl.sid,
                  pending |-> rl.toolCallId,
                  toolCallId |-> rl.toolResult[1].toolCallId,
                  result |-> rl.toolResult[1].result] }
          /\ pendingTools' = [pendingTools EXCEPT ![ReqOf(r)] = <<>>]
     ELSE UNCHANGED << toolForwards, pendingTools >>
  /\ relays' = [relays EXCEPT ![r].st = "stream", ![r].toolCallId = "",
                              ![r].toolResult = <<>>, ![r].toolSession = 0]
  /\ workerCalls' = workerCalls \cup { <<ReqOf(r), rl.port, "tool">> }
  /\ UNCHANGED << host, sessions, now, req, db, processedIds, dispatched, tasks,
                  activeProcesses, relaySessions, procs, fsCalls >>

\* pollAndSubmitToolResult gave up after 5 minutes without a result.
ToolWaitTimeout(r) ==
  /\ Alive
  /\ relays[r].st = "toolPoll"
  /\ ~pollAccepts(db[ReqOf(r)].toolResult, relays[r].toolCallId)
  /\ relays' = [relays EXCEPT ![r].st = "stream", ![r].toolCallId = "",
                              ![r].toolSession = 0]
  /\ UNCHANGED << host, sessions, toolForwards, now, req, db, processedIds, dispatched, tasks,
                  activeProcesses, relaySessions, pendingTools, procs,
                  fsCalls, workerCalls >>

\* The event types of the feed that the stream loop acts on.
EventTypes == { "message.part.delta", "session.status", "tool.invoke" }

\* Whether the handler of an event type goes on for an event that names
\* session eventSid: the delta and status cases compare
\* event.properties.sessionID with the relay's session, the tool.invoke case
\* tests only toolCallId and toolName.
handles(type, eventSid, sessionId) ==
  IF type = "tool.invoke" THEN TRUE ELSE eventSid = sessionId

\* The worker's feed carries every session's events.  An event of another
\* session that the worker is generating for reaches the stream loop.
ForeignEvent(r, type, id, sid) ==
  LET rl == relays[r] IN
  /\ Alive
  /\ rl.st = "stream"
  /\ ~rl.aborted
  /\ sid # rl.sid
  /\ \E x \in SessionOf(sid, rl.wpid) : x.busy
  /\ Running(rl.wpid)
  /\ rl.invoked < MaxTools
  /\ relays' = [relays EXCEPT ![r] =
       IF handles(type, sid, rl.sid) THEN toolInvoke(@, id, sid) ELSE @]
  /\ UNCHANGED << host, sessions, toolForwards, now, req, db, processedIds, dispatched, tasks,
                  activeProcesses, relaySessions, pendingTools, procs,
                  fsCalls, workerCalls >>

\* The event stream ends because its worker exited: reader.read() reports
\* done and the call resolves with what was accumulated.
RelayStreamEnd(r) ==
  LET rl == relays[r] IN
  /\ Alive
  /\ rl.st = "stream"
  /\ ~rl.aborted
  /\ ~Running(rl.wpid)
  /\ relays' = [relays EXCEPT ![r] = settle([@ EXCEPT !.st = "ended"], "resolved", "")]
  /\ UNCHANGED << host, sessions, toolForwards, now, req, db, processedIds, dispatched, tasks,
                  activeProcesses, relaySessions, pendingTools, procs,
                  fsCalls, workerCalls >>

\* The states of a relay between the creation of its 180 s timer and the
\* clearTimeout of an exit path.
TimerStates ==
  { "connect", "prompt", "stream", "partAddPart", "toolAddPart",
    "toolSetPending", "toolPoll", "toolForward", "finalPush" }

\* The timer firing only while the loop reads the stream.
RelayTimeoutWhileReading(r) ==
  LET rl == relays[r] IN
  /\ Alive
  /\ rl.st \in { "connect", "prompt", "stream" }
  /\ rl.settled = ""
  /\ ~rl.aborted
  /\ relays' = [relays EXCEPT ![r] =
       settle([@ EXCEPT !.aborted = TRUE], "rejected",
              "Timed out waiting for AI response (180s)")]
  /\ UNCHANGED << host, sessions, toolForwards, now, req, db, processedIds, dispatched, tasks,
                  activeProcesses, relaySessions, pendingTools, procs,
                  fsCalls, workerCalls >>

\* The 180 s timer fires before the call settled: the stream is aborted and
\* the call rejects.  A loop suspended in a tool wait or in the final push
\* keeps running until it reads the stream again.
RelayTimeout(r) ==
  LET rl == relays[r] IN
  /\ Alive
  /\ rl.st \in TimerStates
  /\ rl.settled = ""
  /\ ~rl.aborted
  /\ relays' = [relays EXCEPT ![r] =
       settle([@ EXCEPT !.aborted = TRUE], "rejected",
              "Timed out waiting for AI response (180s)")]
  /\ UNCHANGED << host, sessions, toolForwards, now, req, db, processedIds, dispatched, tasks,
                  activeProcesses, relaySessions, pendingTools, procs,
                  fsCalls, workerCalls >>

\* The aborted fetch or read throws AbortError: the loop ends.
RelayAborted(r) ==
  LET rl == relays[r] IN
  /\ Alive
  /\ rl.st \in { "connect", "prompt", "stream" }
  /\ rl.aborted
  /\ relays' = [relays EXCEPT ![r].st = "ended"]
  /\ UNCHANGED << host, sessions, toolForwards, now, req, db, processedIds, dispatched, tasks,
                  activeProcesses, relaySessions, pendingTools, procs,
                  fsCalls, workerCalls >>

noResponseText == << "(No response)" >>

\* handleRelayMessage resumes when relayMessageStreaming has settled.
RelayReturned(r) ==
  LET rl == relays[r] IN
  /\ Alive
  /\ tasks[r].pc = "relayAwait"
  /\ rl.settled # ""
  /\ tasks' = [tasks EXCEPT ![r] =
       IF rl.settled = "rejected" THEN Throw(@, rl.err)
       ELSE Complete(@, [NoResponse EXCEPT
              !.aiResponse = IF rl.text = <<>> THEN noResponseText ELSE rl.text,
              !.reasoning = rl.reasoning])]
  /\ UNCHANGED << host, relays, sessions, toolForwards, now, req, db, processedIds, dispatched,
                  activeProcesses, relaySessions, pendingTools, procs,
                  fsCalls, workerCalls >>

\* ------------------------------------------------------------------------
\* The other handlers: listDirectories / handleListDirs, handleGetProviders,
\* handleAuthenticate, handleRefreshJwt, the switch's default
\* ------------------------------------------------------------------------

\* The names readdirSync reports under a directory: its sub-directories whose
\* name does not begin with a dot.
ChildNames(fullPath) ==
  LET segs == NormalizeSegs(Segments(fullPath), <<>>)
  IN { NormalizeSegs(Segments(d), <<>>)[Len(segs) + 1] :
         d \in { e \in ExistingDirs :
                   LET es == NormalizeSegs(Segments(e), <<>>)
                   IN /\ Len(es) = Len(segs) + 1
                      /\ SubSeq(es, 1, Len(segs)) = segs
                      /\ Head(es[Len(es)]) # "." } }

\* listDirectories: the path it reads, and whether its check lets it through.
listFullPath(requestedPath) ==
  resolve(basePath, StripLeadingSlashes(requestedPath))

listPathAllowed(fullPath) == StartsWith(fullPath, basePath)

HandleListDirs(r) ==
  LET q        == req[ReqOf(r)]
      jwtErr   == JwtError(q.jwt, now)
      reqPath  == IF q.path = <<>> THEN <<Slash>> ELSE q.path
      fullPath == listFullPath(reqPath)
  IN
  /\ Alive
  /\ tasks[r].pc = "handler"
  /\ q.type = "list_dirs"
  /\ IF jwtErr # ""
     THEN /\ tasks' = [tasks EXCEPT ![r] = Throw(@, jwtErr)]
          /\ UNCHANGED fsCalls
     ELSE IF ~listPathAllowed(fullPath)
     THEN /\ tasks' = [tasks EXCEPT ![r] =
               Throw(@, "Access denied: path outside base directory")]
          /\ UNCHANGED fsCalls
     ELSE IF ~existsSync(fullPath)
     THEN /\ tasks' = [tasks EXCEPT ![r] = Throw(@, "Directory not found")]
          /\ fsCalls' = fsCalls \cup { <<ReqOf(r), fullPath>> }
     ELSE /\ tasks' = [tasks EXCEPT ![r] =
               Complete(@, [NoResponse EXCEPT !.directories = ChildNames(fullPath)])]
          /\ fsCalls' = fsCalls \cup { <<ReqOf(r), fullPath>> }
  /\ UNCHANGED << host, relays, sessions, toolForwards, now, req, db, processedIds, dispatched,
                  activeProcesses, relaySessions, pendingTools, procs,
                  workerCalls >>

\* handleGetProviders up to its first await: GET /provider on the requested
\* port (the handler reads request.payload only; request.jwt is not looked at).
HandleGetProviders(r) ==
  LET q == req[ReqOf(r)] IN
  /\ Alive
  /\ tasks[r].pc = "handler"
  /\ q.type = "get_providers"
  /\ tasks' = [tasks EXCEPT ![r] =
       IF q.port = 0 THEN Throw(@, "Missing port")
       ELSE [@ EXCEPT !.pc = "getProviders", !.port = q.port]]
  /\ UNCHANGED << host, relays, sessions, toolForwards, now, req, db, processedIds, dispatched,
                  activeProcesses, relaySessions, pendingTools, procs,
                  fsCalls, workerCalls >>

\* The answer to GET /provider: from a worker, GET /config/providers follows;
\* without one the fetch throws.
ProvidersFetched(r) ==
  /\ Alive
  /\ tasks[r].pc = "getProviders"
  /\ IF PortServed(tasks[r].port)
     THEN /\ tasks' = [tasks EXCEPT ![r].pc = "getProviderConfig"]
          /\ workerCalls' = workerCalls \cup { <<ReqOf(r), tasks[r].port, "provider">> }
     ELSE /\ tasks' = [tasks EXCEPT ![r] = Throw(@, "fetch failed")]
          /\ UNCHANGED workerCalls
  /\ UNCHANGED << host, relays, sessions, toolForwards, now, req, db, processedIds, dispatched,
                  activeProcesses, relaySessions, pendingTools, procs,
                  fsCalls >>

ProviderConfigFetched(r) ==
  /\ Alive
  /\ tasks[r].pc = "getProviderConfig"
  /\ IF PortServed(tasks[r].port)
     THEN /\ tasks' = [tasks EXCEPT ![r] =
               Complete(@, [NoResponse EXCEPT !.providers = TRUE])]
          /\ workerCalls' = workerCalls \cup { <<ReqOf(r), tasks[r].port, "config/providers">> }
     ELSE /\ tasks' = [tasks EXCEPT ![r] = Throw(@, "fetch failed")]
          /\ UNCHANGED workerCalls
  /\ UNCHANGED << host, relays, sessions, toolForwards, now, req, db, processedIds, dispatched,
                  activeProcesses, relaySessions, pendingTools, procs,
                  fsCalls >>

\* String.prototype.trim
RECURSIVE TrimLeft(_)
TrimLeft(s) == IF s # <<>> /\ Head(s) = " " THEN TrimLeft(Tail(s)) ELSE s

RECURSIVE TrimRight(_)
TrimRight(s) ==
  IF s # <<>> /\ s[Len(s)] = " " THEN TrimRight(SubSeq(s, 1, Len(s) - 1)) ELSE s

trim(s) == TrimRight(TrimLeft(s))

\* The 6-digit code generated at startup.
startupOtp == << "1", "2", "3", "4", "5", "6" >>

HandleAuthenticate(r) ==
  LET q      == req[ReqOf(r)]
      nowSec == now \div MsPerSec
  IN
  /\ Alive
  /\ tasks[r].pc = "handler"
  /\ q.type = "authenticate"
  /\ tasks' = [tasks EXCEPT ![r] =
       IF q.otp = <<>> THEN Throw(@, "Missing otp")
       ELSE IF trim(q.otp) # startupOtp THEN Throw(@, "Invalid OTP")
       ELSE Complete(@, [NoResponse EXCEPT !.jwtToken =
              << createJwt(Claims(nowSec, nowSec + JwtLifetimeSec), jwtSecret) >>])]
  /\ UNCHANGED << host, relays, sessions, toolForwards, now, req, db, processedIds, dispatched,
                  activeProcesses, relaySessions, pendingTools, procs,
                  fsCalls, workerCalls >>

\* The 24 hours after expiry in which a token may still be refreshed (ms).
RefreshGraceMs == 86400000

\* The comparison with the end of the grace window excluded.
isJwtBeyondGraceFromEnd(payload, graceMs, nowMs) ==
  IF payload.exp = 0 THEN FALSE
  ELSE MsAfterSec(nowMs - graceMs + 1, payload.exp)

\* `Date.now() > exp * 1000 + graceMs`
isJwtBeyondGrace(payload, graceMs, nowMs) ==
  IF payload.exp = 0 THEN FALSE
  ELSE MsAfterSec(nowMs - graceMs, payload.exp)

\* A refresh that extends the expiry and keeps the time of issue.
HandleRefreshJwtKeepIat(r) ==
  LET q      == req[ReqOf(r)]
      nowSec == now \div MsPerSec
      claims == verifyJwt(q.jwt[1], jwtSecret, TRUE, now)
  IN
  /\ Alive
  /\ tasks[r].pc = "handler"
  /\ q.type = "refresh_jwt"
  /\ tasks' = [tasks EXCEPT ![r] =
       IF q.jwt = <<>> THEN Throw(@, "Missing JWT")
       ELSE IF claims = <<>> THEN Throw(@, "Invalid JWT")
       ELSE IF isJwtBeyondGrace(claims[1], RefreshGraceMs, now)
            THEN Throw(@, "JWT expired")
       ELSE Complete(@, [NoResponse EXCEPT !.jwtToken =
              << createJwt([claims[1] EXCEPT !.exp = nowSec + JwtLifetimeSec],
                           jwtSecret) >>])]
  /\ UNCHANGED << host, relays, sessions, toolForwards, now, req, db, processedIds, dispatched,
                  activeProcesses, relaySessions, pendingTools, procs,
                  fsCalls, workerCalls >>

HandleRefreshJwt(r) ==
  LET q      == req[ReqOf(r)]
      nowSec == now \div MsPerSec
      claims == verifyJwt(q.jwt[1], jwtSecret, TRUE, now)
  IN
  /\ Alive
  /\ tasks[r].pc = "handler"
  /\ q.type = "refresh_jwt"
  /\ tasks' = [tasks EXCEPT ![r] =
       IF q.jwt = <<>> THEN Throw(@, "Missing JWT")
       ELSE IF claims = <<>> THEN Throw(@, "Invalid JWT")
       ELSE IF isJwtBeyondGrace(claims[1], RefreshGraceMs, now)
            THEN Throw(@, "JWT expired")
       ELSE Complete(@, [NoResponse EXCEPT !.jwtToken =
              << createJwt([claims[1] EXCEPT !.iat = nowSec,
                                             !.exp = nowSec + JwtLifetimeSec],
                           jwtSecret) >>])]
  /\ UNCHANGED << host, relays, sessions, toolForwards, now, req, db, processedIds, dispatched,
                  activeProcesses, relaySessions, pendingTools, procs,
                  fsCalls, workerCalls >>

KnownTypes ==
  { "authenticate", "refresh_jwt", "list_dirs", "start_opencode",
    "stop_opencode", "relay_message", "get_providers" }

\* The switch's default (the queue also accepts type "get_history").
HandleUnknown(r) ==
  /\ Alive
  /\ tasks[r].pc = "handler"
  /\ req[ReqOf(r)].type \notin KnownTypes
  /\ tasks' = [tasks EXCEPT ![r] = Throw(@, "Unknown request type")]
  /\ UNCHANGED << host, relays, sessions, toolForwards, now, req, db, processedIds, dispatched,
                  activeProcesses, relaySessions, pendingTools, procs,
                  fsCalls, workerCalls >>

\* ------------------------------------------------------------------------
\* The clock and the inactivity checker
\* ------------------------------------------------------------------------

\* config.inactivityTimeoutMs
InactivityTimeoutMs == 60000
\* The step by which the model's clock advances (ms).
AdvanceMs == 30000

Advance ==
  /\ now < StartMs + MaxTicks * AdvanceMs
  /\ now' = now + AdvanceMs
  /\ UNCHANGED << host, relays, sessions, toolForwards, req, db, processedIds, dispatched,
                  tasks, activeProcesses, relaySessions, pendingTools, procs,
                  fsCalls, workerCalls >>

\* The comparison with the boundary included.
isInactiveFromTimeout(tickNow, rec) ==
  tickNow - rec.lastActivity >= InactivityTimeoutMs

\* `now - proc.lastActivity > config.inactivityTimeoutMs`
isInactive(tickNow, rec) == tickNow - rec.lastActivity > InactivityTimeoutMs

\* The checker's loop over the map's entries from where it stands, up to the
\* first inactive entry (0 when it reaches the end).
reapTarget(ap, tickNow, visited) ==
  IF \E i \in 1..Len(ap) : ap[i].path \notin visited /\ isInactive(tickNow, ap[i])
  THEN CHOOSE i \in 1..Len(ap) :
         /\ ap[i].path \notin visited /\ isInactive(tickNow, ap[i])
         /\ \A j \in 1..(i - 1) :
              ap[j].path \in visited \/ ~isInactive(tickNow, ap[j])
  ELSE 0

\* The loop runs on from task t: it stops the first inactive worker it meets
\* (and suspends in stopOpencodeServe), or ends.
reapScan(t, ap, tickNow, visited) ==
  LET i == reapTarget(ap, tickNow, visited) IN
  IF i = 0 THEN NoTask
  ELSE [stopSync(t, ap, ap[i].path, "reaper") EXCEPT
          !.tickNow = tickNow,
          !.visited = visited \cup { ap[j].path : j \in 1..i }]

reapSignal(ps, ap, tickNow, visited) ==
  LET i == reapTarget(ap, tickNow, visited) IN
  IF i = 0 THEN ps ELSE stopSignal(ps, ap, ap[i].path)

\* The interval callback of startInactivityChecker begins (one run at a time).
ReaperTick ==
  /\ Alive
  /\ tasks[ReaperId].pc = "idle"
  /\ reapTarget(activeProcesses, now, {}) # 0
  /\ tasks' = [tasks EXCEPT ![ReaperId] = reapScan(@, activeProcesses, now, {})]
  /\ procs' = reapSignal(procs, activeProcesses, now, {})
  /\ UNCHANGED << host, relays, sessions, toolForwards, now, req, db, processedIds, dispatched,
                  activeProcesses, relaySessions, pendingTools, fsCalls,
                  workerCalls >>

\* `await stopOpencodeServe(directory)` returned: the loop goes on.
ReaperResume ==
  LET t == tasks[ReaperId] IN
  /\ Alive
  /\ t.pc = "stopReturned"
  /\ t.ret = "reaper"
  /\ tasks' = [tasks EXCEPT ![ReaperId] =
       reapScan(@, activeProcesses, t.tickNow, t.visited)]
  /\ procs' = reapSignal(procs, activeProcesses, t.tickNow, t.visited)
  /\ UNCHANGED << host, relays, sessions, toolForwards, now, req, db, processedIds, dispatched,
                  activeProcesses, relaySessions, pendingTools, fsCalls,
                  workerCalls >>

\* ------------------------------------------------------------------------
\* Requests the clients send, and the specifications
\* ------------------------------------------------------------------------

\* Directories as clients name them: two projects under the base path, a
\* path that climbs out of it, and the sibling whose name begins like the
\* base directory's.
DirP == << "/", "p" >>
DirQ == << "/", "q" >>
DirOutside == << ".", ".", "/", "x" >>
DirSibling == << ".", ".", "/", "b", "x" >>

StartReq(jwt, directory) ==
  Request("start_opencode", jwt, <<>>, directory, 0, "", 0, <<>>)
StopReq(jwt, directory) ==
  Request("stop_opencode", jwt, <<>>, directory, 0, "", 0, <<>>)
RelayReq(jwt, directory, port, sessionId) ==
  Request("relay_message", jwt, <<>>, directory, port, "hi", sessionId, <<>>)
ListReq(jwt, path) ==
  Request("list_dirs", jwt, path, <<>>, 0, "", 0, <<>>)
ProvidersReq(jwt, port) ==
  Request("get_providers", jwt, <<>>, <<>>, port, "", 0, <<>>)
AuthReq(otp) ==
  Request("authenticate", <<>>, <<>>, <<>>, 0, "", 0, otp)
RefreshReq(jwt) ==
  Request("refresh_jwt", jwt, <<>>, <<>>, 0, "", 0, <<>>)
HistoryReq(jwt) ==
  Request("get_history", jwt, <<>>, <<>>, 0, "", 0, <<>>)

\* Supervisor workload: authorised starts and stops of two projects.
MenuSupervisor ==
  { StartReq(JwtValid, DirP), StartReq(JwtValid, DirQ), StopReq(JwtValid, DirP) }

\* The steps of one request's processRequest call up to its handler, and its
\* outcome.
QueueStep(r) ==
  \/ Deliver(r)
  \/ MarkProcessing(r)
  \/ MarkFailed(r)
  \/ MarkCompleted(r)

\* The queue writes of one processRequest call.
CallStep(c) ==
  \/ MarkProcessing(c)
  \/ MarkFailed(c)
  \/ MarkCompleted(c)

\* The steps of start-worker and stop-worker requests.
StartStopStep(r) ==
  \/ HandleStartOpencode(r)
  \/ StartSpawn(r)
  \/ StartReady(r)
  \/ StartTimeout(r)
  \/ StartStatusDone(r)
  \/ StartReturned(r)
  \/ GetSessionsDone(r)
  \/ HandleStopOpencode(r)
  \/ StopReturned(r)

\* The steps of a stopOpencodeServe call, of a request or of the checker.
StopStep(t) ==
  \/ StopTimeout(t)
  \/ StopStatusDone(t)

DeltaKinds == { "text", "reasoning" }
\* One delta of each kind.
DeltaOf(kind) == IF kind = "reasoning" THEN << "r" >> ELSE << "t" >>

\* The steps of a relay whose worker invokes no tool.
RelayStep(r) ==
  \/ HandleRelayMessage(r)
  \/ RelayRestarted(r)
  \/ SessionCreate(r)
  \/ SseConnect(r)
  \/ RelayPrompt(r)
  \/ \E kind \in DeltaKinds : RelayDelta(r, kind, DeltaOf(kind))
  \/ RelayIdle(r)
  \/ RelayFinalPushDone(r)
  \/ RelayStreamEnd(r)
  \/ RelayTimeout(r)
  \/ RelayAborted(r)
  \/ RelayReturned(r)

\* The steps of a tool invocation inside a relay.
ToolStep(r) ==
  \/ \E id \in ToolIds : RelayToolInvoke(r, id)
  \/ ToolPartAdded(r)
  \/ ToolPendingSet(r)
  \/ \E id \in ToolIds, result \in ToolResults : SubmitToolResult(r, id, result)
  \/ ToolPoll(r)
  \/ ToolForwardDone(r)
  \/ ToolWaitTimeout(r)

\* The steps of the handlers that make no supervisor call.
OtherStep(r) ==
  \/ HandleListDirs(r)
  \/ HandleGetProviders(r)
  \/ ProvidersFetched(r)
  \/ ProviderConfigFetched(r)
  \/ HandleUnknown(r)

ProcStep ==
  \E pid \in 1..MaxPid : ProcServe(pid) \/ ProcExit(pid)

\* Concurrent start-worker and stop-worker requests.
Next ==
  \/ \E r \in ReqIds, q \in MenuSupervisor : Create(r, q)
  \/ \E r \in ReqIds : QueueStep(r) \/ StartStopStep(r) \/ StopStep(r)
  \/ ProcStep

Spec == Init /\ [][Next]_vars

\* The daemon with one worker already started for project p: running, bound
\* to the first port of the range, its record in the map.
WorkerDir == resolve(basePath, StripLeadingSlashes(DirP))

InitWorker ==
  /\ InitCommon
  /\ processedIds = <<>>
  /\ procs = << [Proc(WorkerDir, PortMin) EXCEPT !.serving = TRUE] >>
  /\ activeProcesses = << ActiveProcess(WorkerDir, PortMin, 1, StartMs) >>
  /\ req = [r \in ReqIds |-> NoRequest]
  /\ db = [r \in ReqIds |-> NoRow]

\* Dispatcher workload: one request of each type the switch knows (and one it
\* does not), with each kind of credential, and starts and relays that name
\* a directory outside the base path.
Jwts == { JwtNone, JwtValid, JwtExpired, JwtForged }

MenuDispatch ==
  UNION { { ListReq(j, <<Slash>>), StartReq(j, DirQ), StopReq(j, DirP),
            RelayReq(j, DirP, PortMin, 0), ProvidersReq(j, PortMin),
            HistoryReq(j) } : j \in Jwts }
  \cup { StartReq(JwtValid, DirOutside), StartReq(JwtValid, DirSibling),
         RelayReq(JwtValid, DirOutside, PortMax, 0),
         RelayReq(JwtValid, DirSibling, PortMax, 0) }

NextDispatch ==
  \/ \E q \in MenuDispatch : Create(1, q)
  \/ QueueStep(1) \/ StartStopStep(1) \/ StopStep(1)
  \/ RelayStep(1) \/ OtherStep(1)
  \/ ProcStep

SpecDispatch == InitWorker /\ [][NextDispatch]_vars

\* Directory browsing: one authorised list-directories request whose path is
\* any string over the path alphabet.
InitFs ==
  /\ InitCommon
  /\ processedIds = <<>>
  /\ activeProcesses = <<>>
  /\ procs = <<>>
  /\ \E path \in StringsUpTo(PathChars, MaxPathLen) :
       req = [r \in ReqIds |-> IF r = 1 THEN ListReq(JwtValid, path) ELSE NoRequest]
  /\ db = [r \in ReqIds |-> IF r = 1 THEN [NoRow EXCEPT !.status = "pending"] ELSE NoRow]

NextFs ==
  \/ QueueStep(1)
  \/ HandleListDirs(1)

SpecFs == InitFs /\ [][NextFs]_vars

\* The steps of the startOpencodeServe call a relay makes to restart a worker.
RestartStep(r) ==
  \/ StartSpawn(r)
  \/ StartReady(r)
  \/ StartTimeout(r)
  \/ StartStatusDone(r)

\* A relay to the worker of project p and then a stop of it, running
\* concurrently.
RelayStopReq(r) ==
  IF r = 1 THEN RelayReq(JwtValid, DirP, PortMin, 0) ELSE StopReq(JwtValid, DirP)

NextRelayStop ==
  \/ \E r \in 1..2 : Create(r, RelayStopReq(r))
  \/ \E r \in 1..2 :
       \/ QueueStep(r)
       \/ RelayStep(r) \/ RestartStep(r)
       \/ HandleStopOpencode(r) \/ StopStep(r) \/ StopReturned(r)
  \/ ProcStep

SpecRelayStop == InitWorker /\ [][NextRelayStop]_vars

\* One relay to the worker of project p, during which the worker invokes
\* tools and clients submit tool results.
MenuRelay == { RelayReq(JwtValid, DirP, PortMin, 0) }

NextTool ==
  \/ \E q \in MenuRelay : Create(1, q)
  \/ QueueStep(1)
  \/ RelayStep(1) \/ RestartStep(1) \/ ToolStep(1)
  \/ ProcStep

SpecTool == InitWorker /\ [][NextTool]_vars

\* One relay to the worker of project p while the clock runs and the
\* inactivity checker polls.
NextReap ==
  \/ \E q \in MenuRelay : Create(1, q)
  \/ QueueStep(1)
  \/ RelayStep(1) \/ RestartStep(1)
  \/ Advance
  \/ ReaperTick \/ ReaperResume \/ StopStep(ReaperId)
  \/ ProcStep

SpecReap == InitWorker /\ [][NextReap]_vars

\* The daemon with workers for projects p and q, both started at StartMs;
\* start requests for either refresh its record or, after a stop, start it
\* again, while the clock runs and the inactivity checker polls.
WorkerDirQ == resolve(basePath, StripLeadingSlashes(DirQ))

InitTwoWorkers ==
  /\ InitCommon
  /\ processedIds = <<>>
  /\ procs = << [Proc(WorkerDir, PortMin) EXCEPT !.serving = TRUE],
                [Proc(WorkerDirQ, PortMax) EXCEPT !.serving = TRUE] >>
  /\ activeProcesses = << ActiveProcess(WorkerDir, PortMin, 1, StartMs),
                          ActiveProcess(WorkerDirQ, PortMax, 2, StartMs) >>
  /\ req = [r \in ReqIds |-> NoRequest]
  /\ db = [r \in ReqIds |-> NoRow]

MenuTouch == { StartReq(JwtValid, DirP), StartReq(JwtValid, DirQ) }

NextIdle ==
  \/ \E q \in MenuTouch : Create(1, q)
  \/ QueueStep(1)
  \/ HandleStartOpencode(1) \/ StartReturned(1) \/ GetSessionsDone(1)
  \/ RestartStep(1)
  \/ Advance
  \/ ReaperTick \/ ReaperResume \/ StopStep(ReaperId)
  \/ ProcStep

SpecIdle == InitTwoWorkers /\ [][NextIdle]_vars

\* The daemon after it has processed one earlier request (its id is still in
\* processedIds), receiving requests that need no worker.
OldId == MaxReq + 1

InitSeen ==
  /\ InitCommon
  /\ processedIds = << OldId >>
  /\ activeProcesses = <<>>
  /\ procs = <<>>
  /\ req = [r \in ReqIds |-> NoRequest]
  /\ db = [r \in ReqIds |-> NoRow]

MenuQueue == { AuthReq(startupOtp), HistoryReq(JwtValid) }

\* The steps of a call for such a request.
QueueCallStep(c) ==
  \/ CallStep(c)
  \/ HandleAuthenticate(c)
  \/ HandleUnknown(c)

NextDedup ==
  \/ \E r \in ReqIds, q \in MenuQueue : Create(r, q)
  \/ \E r \in ReqIds : Deliver(r)
  \/ \E c \in CallIds : QueueCallStep(c)

SpecDedup == InitSeen /\ [][NextDedup]_vars

\* The daemon's own steps: the subscription callback, the handlers'
\* continuations and the queue writes.
DaemonDedup ==
  \/ \E r \in ReqIds : Deliver(r)
  \/ \E c \in CallIds : QueueCallStep(c)

\* The same with the daemon's steps scheduled fairly: while one of them can
\* be taken, one is.  Calls are finitely many and each ends after finitely
\* many steps, so no call waits forever.
FairDedup == SpecDedup /\ WF_vars(DaemonDedup)

\* The daemon with both ports of its range held by workers, receiving
\* requests that fail in each way a handler can (credential, validation,
\* port exhaustion, startup timeout, relay error, unknown type) or succeed.
MenuErrors ==
  { StartReq(JwtExpired, DirP), StartReq(JwtValid, DirOutside),
    StartReq(JwtValid, << Slash >>), HistoryReq(JwtValid) }

MenuErrorsRelay == { RelayReq(JwtValid, DirP, PortMin, 0) }

NextErrors ==
  \/ \E q \in MenuErrors \cup MenuErrorsRelay : Create(1, q)
  \/ \E q \in MenuErrors : Create(2, q)
  \/ \E r \in 1..2 :
       \/ QueueStep(r)
       \/ HandleStartOpencode(r) \/ StartReturned(r) \/ GetSessionsDone(r)
       \/ RestartStep(r)
       \/ RelayStep(r)
       \/ HandleUnknown(r)
  \/ ProcStep

SpecErrors == InitTwoWorkers /\ [][NextErrors]_vars

\* A credential signed with the host secret whose expiry t lies shortly after
\* the start of the run, and the instants around t and around t + grace (ms).
TokenExpSec == 130

JwtShort ==
  << createJwt(Claims(StartMs \div MsPerSec, TokenExpSec), jwtSecret) >>

ExpiryTimes ==
  { TokenExpSec * MsPerSec - 1, TokenExpSec * MsPerSec,
    TokenExpSec * MsPerSec + 1,
    TokenExpSec * MsPerSec + RefreshGraceMs,
    TokenExpSec * MsPerSec + RefreshGraceMs + 1 }

\* Time passes between two events of the loop.
Elapse ==
  /\ \E t \in ExpiryTimes : t > now /\ now' = t
  /\ UNCHANGED << host, relays, sessions, toolForwards, req, db, processedIds, dispatched,
                  tasks, activeProcesses, relaySessions, pendingTools, procs,
                  fsCalls, workerCalls >>

\* Requests presenting that credential: one to a handler that verifies it
\* (allowExpired unset), one to refresh it; and a refresh of a forged one.
MenuExpiry ==
  { ListReq(JwtShort, << Slash >>), RefreshReq(JwtShort), RefreshReq(JwtForged) }

NextExpiry ==
  \/ \E r \in ReqIds, q \in MenuExpiry : Create(r, q)
  \/ \E r \in ReqIds : QueueStep(r) \/ HandleListDirs(r) \/ HandleRefreshJwt(r)
  \/ Elapse

SpecExpiry == Init /\ [][NextExpiry]_vars

\* One-time codes a client may present: the startup code, the startup code
\* between blanks, another code.
OtpPadded == << " " >> \o startupOtp \o << " " >>
OtpWrong == << "6", "5", "4", "3", "2", "1" >>

MenuAuth == { AuthReq(startupOtp), AuthReq(OtpPadded), AuthReq(OtpWrong) }

\* The credentials returned so far in outcomes.
Minted == { db[k].response.jwtToken : k \in ReqIds } \ { <<>> }

\* A credential as returned, with its payload altered under the same
\* signature, and with a signature made with another secret.
Presented(jwt) ==
  LET tok     == jwt[1]
      payload == base64UrlDecode(tok.body)
  IN { jwt,
       << [tok EXCEPT !.body =
             base64UrlEncode([payload EXCEPT !.exp = @ + JwtLifetimeSec])] >>,
       << [tok EXCEPT !.sig = Hmac(otherSecret, << tok.header, tok.body >>)] >> }

NextAuth ==
  \/ \E r \in ReqIds, q \in MenuAuth : Create(r, q)
  \/ \E r \in ReqIds, jwt \in Minted :
       \E v \in Presented(jwt) : Create(r, ListReq(v, << Slash >>))
  \/ \E r \in ReqIds : QueueStep(r) \/ HandleAuthenticate(r) \/ HandleListDirs(r)
  \/ Advance

SpecAuth == Init /\ [][NextAuth]_vars

\* The daemon with two child processes on the ends of the port range, each
\* tracked in the map or not and each listening on its port or not, receiving
\* a start request.
InitPorts ==
  /\ InitCommon
  /\ processedIds = <<>>
  /\ \E serving \in SUBSET { 1, 2 } :
       procs = << [Proc(WorkerDir, PortMin) EXCEPT !.serving = 1 \in serving],
                  [Proc(WorkerDirQ, PortMax) EXCEPT !.serving = 2 \in serving] >>
  /\ \E tracked \in SUBSET { 1, 2 } :
       activeProcesses =
         (IF 1 \in tracked
          THEN << ActiveProcess(WorkerDir, PortMin, 1, StartMs) >> ELSE <<>>)
         \o (IF 2 \in tracked
             THEN << ActiveProcess(WorkerDirQ, PortMax, 2, StartMs) >> ELSE <<>>)
  /\ req = [r \in ReqIds |-> NoRequest]
  /\ db = [r \in ReqIds |-> NoRow]

NextPorts ==
  \/ \E q \in MenuTouch : Create(1, q)
  \/ QueueStep(1)
  \/ HandleStartOpencode(1) \/ StartReturned(1) \/ GetSessionsDone(1)
  \/ RestartStep(1)
  \/ ProcStep

SpecPorts == InitPorts /\ [][NextPorts]_vars

\* One relay to the running worker whose stream carries deltas of both kinds
\* and of different lengths, while the push interval fires and the clock
\* runs.
DeltaTexts == { << "a" >>, << "b", "c" >> }

MenuStream == { RelayReq(JwtValid, DirP, PortMin, 0) }

NextStream ==
  \/ \E q \in MenuStream : Create(1, q)
  \/ QueueStep(1)
  \/ HandleRelayMessage(1)
  \/ SessionCreate(1) \/ SseConnect(1) \/ RelayPrompt(1)
  \/ \E kind \in DeltaKinds, delta \in DeltaTexts : RelayDelta(1, kind, delta)
  \/ RelayPushTick(1) \/ RelayPushDone(1)
  \/ RelayIdle(1) \/ RelayFinalPushDone(1)
  \/ RelayTimeout(1) \/ RelayAborted(1)
  \/ RelayReturned(1)
  \/ Advance

SpecStream == InitWorker /\ [][NextStream]_vars

\* One relay to the running worker, during which the worker invokes tools,
\* clients submit results or do not, and the relay's timer may fire.
NextTimeout ==
  \/ \E q \in MenuRelay : Create(1, q)
  \/ QueueStep(1)
  \/ HandleRelayMessage(1)
  \/ SessionCreate(1) \/ SseConnect(1) \/ RelayPrompt(1)
  \/ \E kind \in DeltaKinds : RelayDelta(1, kind, DeltaOf(kind))
  \/ RelayIdle(1) \/ RelayFinalPushDone(1)
  \/ \E id \in ToolIds : RelayToolInvoke(1, id)
  \/ ToolPartAdded(1) \/ ToolPendingSet(1)
  \/ \E id \in ToolIds : SubmitToolResult(1, id, "A")
  \/ ToolPoll(1) \/ ToolForwardDone(1) \/ ToolWaitTimeout(1)
  \/ RelayTimeout(1) \/ RelayAborted(1)
  \/ RelayReturned(1)

SpecTimeout == InitWorker /\ [][NextTimeout]_vars

\* The same with the timer, the continuation of handleRelayMessage and the
\* queue writes scheduled fairly.
FairTimeout ==
  /\ SpecTimeout
  /\ WF_vars(RelayTimeout(1))
  /\ WF_vars(RelayFinalPushDone(1))
  /\ WF_vars(RelayReturned(1) \/ CallStep(1))

\* Relays to either end of the port range, with and without a directory,
\* received by the daemon whose two child processes are each tracked or not.
MenuNoWorker ==
  { RelayReq(JwtValid, dir, port, 0) : dir \in { <<>>, DirP },
                                       port \in { PortMin, PortMax } }

NextNoWorker ==
  \/ \E q \in MenuNoWorker : Create(1, q)
  \/ QueueStep(1)
  \/ RelayStep(1)
  \/ RestartStep(1)
  \/ ProcStep

SpecNoWorker == InitPorts /\ [][NextNoWorker]_vars

\* The daemon with the worker of project p receives a start request for
\* project q and a termination signal, in either order; the heartbeat runs.
MenuShutdown == { StartReq(JwtValid, DirQ) }

DaemonShutdown ==
  \/ QueueStep(1)
  \/ HandleStartOpencode(1) \/ StartReturned(1) \/ GetSessionsDone(1)
  \/ RestartStep(1)
  \/ Heartbeat
  \/ Shutdown
  \/ \E i \in 1..MaxPid :
       ShutdownStopTimeout(i) \/ ShutdownStopStatusDone(i)
  \/ ShutdownMarkOffline
  \/ ShutdownExit

NextShutdown ==
  \/ \E q \in MenuShutdown : Create(1, q)
  \/ DaemonShutdown
  \/ ProcStep

SpecShutdown == InitWorker /\ [][NextShutdown]_vars

\* Starts, stops and relays for project p, two at a time, while the worker of
\* project p and its successors may exit at any moment.
MenuRespawn ==
  { StartReq(JwtValid, DirP), StopReq(JwtValid, DirP),
    RelayReq(JwtValid, DirP, PortMin, 0) }

NextRespawn ==
  \/ \E r \in 1..2, q \in MenuRespawn : Create(r, q)
  \/ \E r \in 1..2 :
       \/ QueueStep(r)
       \/ StartStopStep(r)
       \/ StopStep(r)
       \/ HandleRelayMessage(r)
       \/ RelayRestarted(r)
  \/ ProcStep

SpecRespawn == InitWorker /\ [][NextRespawn]_vars

\* One relay to the running worker while the worker is also generating for
\* a session that another client opened on it.
InitShared ==
  /\ InitDaemon
  /\ sessions = { [sid |-> 1, pid |-> 1, busy |-> TRUE] }
  /\ processedIds = <<>>
  /\ procs = << [Proc(WorkerDir, PortMin) EXCEPT !.serving = TRUE] >>
  /\ activeProcesses = << ActiveProcess(WorkerDir, PortMin, 1, StartMs) >>
  /\ req = [r \in ReqIds |-> NoRequest]
  /\ db = [r \in ReqIds |-> NoRow]

NextShared ==
  \/ \E q \in MenuRelay : Create(1, q)
  \/ QueueStep(1)
  \/ HandleRelayMessage(1)
  \/ SessionCreate(1) \/ SseConnect(1) \/ RelayPrompt(1)
  \/ \E kind \in DeltaKinds : RelayDelta(1, kind, DeltaOf(kind))
  \/ RelayIdle(1) \/ RelayFinalPushDone(1)
  \/ \E id \in ToolIds : RelayToolInvoke(1, id)
  \/ \E type \in EventTypes, id \in ToolIds, sid \in 1..MaxSessions :
       ForeignEvent(1, type, id, sid)
  \/ ToolPartAdded(1) \/ ToolPendingSet(1)
  \/ \E id \in ToolIds : SubmitToolResult(1, id, "A")
  \/ ToolPoll(1) \/ ToolForwardDone(1) \/ ToolWaitTimeout(1)
  \/ RelayTimeout(1) \/ RelayAborted(1)
  \/ RelayReturned(1)

SpecShared == InitShared /\ [][NextShared]_vars

\* Two relays for project p that name no session, at the same time, to the
\* running worker.
NextSameDir ==
  \/ \E r \in 1..2, q \in MenuRelay : Create(r, q)
  \/ \E r \in 1..2 :
       \/ QueueStep(r)
       \/ HandleRelayMessage(r)
       \/ SessionStatus(r) \/ SessionCreate(r) \/ SseConnect(r) \/ RelayPrompt(r)
       \/ RelayIdle(r) \/ RelayFinalPushDone(r)
       \/ RelayTimeout(r) \/ RelayAborted(r)
       \/ RelayReturned(r)

SpecSameDir == InitWorker /\ [][NextSameDir]_vars

\* Two relays for project p, with or without a session id of their own, to a
\* worker that may exit and be restarted.
PreferredSession == MaxSessions

MenuSession ==
  { RelayReq(JwtValid, DirP, PortMin, 0),
    RelayReq(JwtValid, DirP, PortMin, PreferredSession) }

NextSession ==
  \/ \E r \in 1..2, q \in MenuSession : Create(r, q)
  \/ \E r \in 1..2 :
       \/ QueueStep(r)
       \/ HandleRelayMessage(r) \/ RelayRestarted(r)
       \/ RestartStep(r)
       \/ SessionStatus(r) \/ SessionCreate(r) \/ SseConnect(r) \/ RelayPrompt(r)
       \/ RelayIdle(r) \/ RelayFinalPushDone(r)
       \/ RelayReturned(r)
  \/ ProcStep

SpecSession == InitWorker /\ [][NextSession]_vars

\* ------------------------------------------------------------------------
\* Claims
\* ------------------------------------------------------------------------

StartPath(r) == resolve(basePath, StripLeadingSlashes(req[r].directory))
SpawnedFor(dir) == { pid \in Pids : procs[pid].dir = dir }

\* C1: two start-worker calls for one directory, neither of whose workers
\* has exited, spawn exactly one process for it and both return the same
\* port and pid.
C1_ConcurrentStartsShareOneWorker ==
  \A r1, r2 \in ReqIds :
    ( /\ r1 # r2
      /\ req[r1].type = "start_opencode" /\ req[r2].type = "start_opencode"
      /\ StartPath(r1) = StartPath(r2)
      /\ db[r1].status = "completed" /\ db[r2].status = "completed"
      /\ \A pid \in SpawnedFor(StartPath(r1)) : Running(pid) )
    => /\ Cardinality(SpawnedFor(StartPath(r1))) = 1
       /\ db[r1].response.port = db[r2].response.port
       /\ db[r1].response.pid = db[r2].response.pid

\* C2: no two records of the worker map hold the same port.
C2_NoSharedPort ==
  \A i, j \in 1..Len(activeProcesses) :
    i # j => activeProcesses[i].port # activeProcesses[j].port

\* C6: when stopOpencodeServe returns for a worker, that process has exited
\* or has been sent SIGKILL.
C6_StopReturnsAfterExitOrForcedKill ==
  \A t \in TaskIds :
    (tasks[t].pc \in { "stopStatus", "stopReturned" } /\ tasks[t].pid # 0)
    => \/ ~Running(tasks[t].pid)
       \/ procs[tasks[t].pid].sigkill

\* C8: when a start fails on the readiness timeout, the spawned process has
\* been forcibly terminated and no record of it remains.
C8_StartupTimeoutForceKills ==
  \A r \in ReqIds :
    (tasks[r].pc = "markFailed" /\ tasks[r].err = "opencode serve failed to start")
    => /\ \/ ~Running(tasks[r].pid)
          \/ procs[tasks[r].pid].sigkill
       /\ \A i \in 1..Len(activeProcesses) :
            activeProcesses[i].pid # tasks[r].pid

\* The task positions at which a handler has called the supervisor, started a
\* relay, or is about to report success.
ActingPcs ==
  { "spawn", "waitReady", "startStatus", "startReturned", "getSessions",
    "stopWait", "stopStatus", "stopReturned", "relayAwait",
    "getProviders", "getProviderConfig", "markCompleted" }

\* C3: a request of any type but authenticate and refresh_jwt whose credential
\* does not verify never acts: it is not completed, and it makes no supervisor
\* call, no filesystem call and no call to a worker.
C3_NoActionWithoutCredential ==
  \A r \in ReqIds :
    ( /\ req[r].type \notin { "none", "authenticate", "refresh_jwt" }
      /\ JwtError(req[r].jwt, now) # "" )
    => /\ db[r].status # "completed"
       /\ tasks[r].pc \notin ActingPcs
       /\ \A c \in fsCalls : c[1] # r
       /\ \A c \in workerCalls : c[1] # r

\* A path is the base path or lies below it.
InsideBase(p) == p = basePath \/ StartsWith(p, basePath \o << Slash >>)

\* C4: every filesystem call of list-directories is on the base path or a
\* descendant of it.
C4_ListingStaysInsideBase ==
  \A c \in fsCalls :
    req[c[1]].type = "list_dirs" => InsideBase(c[2])

\* C5: every worker process spawned and every record of the worker map is
\* for a directory inside the base path.
C5_NoWorkerOutsideBase ==
  /\ \A pid \in Pids : InsideBase(procs[pid].dir)
  /\ \A i \in 1..Len(activeProcesses) : InsideBase(activeProcesses[i].path)

\* C7: when stopOpencodeServe has returned for a worker, the map holds no
\* record of that worker and relaySessions holds no binding to a session that
\* a relay created on it.
C7_StopRemovesRecordAndBindings ==
  \A t \in TaskIds :
    (tasks[t].pc = "stopReturned" /\ tasks[t].pid # 0)
    => /\ \A i \in 1..Len(activeProcesses) :
            activeProcesses[i].pid # tasks[t].pid
       /\ \A e \in relaySessions : SessionOf(e.sid, tasks[t].pid) = {}

\* C9: the wait for the result of tool call T ends only on a submitted result
\* whose tool-call id is T, and every result forwarded to the worker carries
\* the id of the invocation it was forwarded for.
C9_OnlyMatchingResultEndsWait ==
  /\ \A r \in ReqIds :
       relays[r].st = "toolForward"
       => relays[r].toolResult[1].toolCallId = relays[r].toolCallId
  /\ \A f \in toolForwards : f.toolCallId = f.pending

\* A relay is in flight on a port: its handler awaits relayMessageStreaming.
RelayInFlight(port) ==
  \E r \in ReqIds :
    /\ tasks[r].pc = "relayAwait"
    /\ relays[r].port = port
    /\ relays[r].settled = ""

\* The inactivity checker calls stopOpencodeServe on a worker that has a
\* record: its task enters the wait for the worker's exit.
ReaperStops ==
  /\ tasks[ReaperId].pc # "stopWait"
  /\ tasks'[ReaperId].pc = "stopWait"

\* C10: a step in which the inactivity checker begins to stop a worker is
\* never taken while a relay is in flight on that worker's port.
C10_ReaperSparesRelayInFlight ==
  [][ReaperStops =>
        ~RelayInFlight(ApGet(activeProcesses, tasks'[ReaperId].dir).port)]_vars

\* The inactivity checker's loop ends: its callback returns.
ReaperEnds ==
  /\ tasks[ReaperId].pc = "stopReturned"
  /\ tasks'[ReaperId].pc = "idle"

\* C11: a tick taken at time tickNow stops a worker only if
\* tickNow - lastActivity exceeds the idle timeout, and when the tick's loop
\* ends no record with tickNow - lastActivity above the timeout is left.
C11_TickStopsExactlyTheIdle ==
  [][ /\ ReaperStops =>
           tasks'[ReaperId].tickNow
             - ApGet(activeProcesses, tasks'[ReaperId].dir).lastActivity
             > InactivityTimeoutMs
      /\ ReaperEnds =>
           \A i \in 1..Len(activeProcesses) :
             tasks[ReaperId].tickNow - activeProcesses[i].lastActivity
               <= InactivityTimeoutMs ]_vars

\* C11 witness: the tick is stopping one worker after it passed over another
\* whose lastActivity lies exactly the idle timeout before the tick.
C11_Witness ==
  /\ tasks[ReaperId].pc = "stopWait"
  /\ \E i \in 1..Len(activeProcesses) :
       /\ activeProcesses[i].path \in tasks[ReaperId].visited
       /\ activeProcesses[i].path # tasks[ReaperId].dir
       /\ tasks[ReaperId].tickNow - activeProcesses[i].lastActivity
            = InactivityTimeoutMs

\* C12: main calls processRequest at most once for each request id.
C12_DispatchedAtMostOnce ==
  \A r \in ReqIds : dispatched[r] <= 1

\* C13: when a handler has thrown, the step that ends the call writes the
\* failed outcome with the thrown message to that request's row and touches
\* no other request's row or call.
C13_HandlerErrorBecomesFailedOutcome ==
  [][ \A r \in ReqIds :
        (tasks[r].pc = "markFailed" /\ tasks'[r].pc # "markFailed")
        => /\ tasks[r].err # ""
           /\ db'[r].status = "failed"
           /\ db'[r].response = [NoResponse EXCEPT !.error = tasks[r].err]
           /\ \A k \in ReqIds \ {r} : tasks'[k] = tasks[k] /\ db'[k] = db[k] ]_vars

\* C13 witness: the request delivered first failed with its error's message
\* and the request delivered after it was completed.
C13_Witness ==
  /\ processedIds = << 1, 2 >>
  /\ db[1].status = "failed"
  /\ db[1].response.error = "No available ports in range"
  /\ db[2].status = "completed"

\* The processRequest calls for request r that have written a terminal
\* outcome (markCompleted or markFailed).
TerminalWrites(r) ==
  { c \in CallIds : ReqOf(c) = r /\ tasks[c].pc = "done" }

\* C14: every request marked processing eventually has a terminal outcome,
\* completed or failed, and no request is written a terminal outcome more
\* than once.
C14_ExactlyOneTerminalOutcome ==
  /\ \A r \in ReqIds :
       (db[r].status = "processing") ~> (db[r].status \in { "completed", "failed" })
  /\ [](\A r \in ReqIds : Cardinality(TerminalWrites(r)) <= 1)

\* A handler's synchronous part runs for call c.
HandlerRuns(c) == tasks[c].pc = "handler" /\ tasks'[c].pc # "handler"

\* C15: a correctly signed credential with expiry t is accepted by verify
\* (allowExpired = false) at every time before t and rejected at every time
\* at or after t, exactly t included.
C15_VerifyRejectsFromExpiry ==
  [][ \A c \in ReqIds :
        (HandlerRuns(c) /\ req[c] = ListReq(JwtShort, << Slash >>))
        => ((tasks'[c].err = "Invalid or expired JWT")
            <=> now >= TokenExpSec * MsPerSec) ]_vars

\* The instant (ms) at which the grace window of JwtShort ends.
GraceEndMs == TokenExpSec * MsPerSec + RefreshGraceMs

\* refresh of the credential with expiry t succeeded / failed with an auth
\* error in the step.
RefreshSucceeds(c) ==
  /\ tasks'[c].pc = "markCompleted"
  /\ tasks'[c].response.jwtToken # <<>>
RefreshFails(c) ==
  /\ tasks'[c].pc = "markFailed"
  /\ tasks'[c].err \in { "Invalid JWT", "JWT expired" }

\* C16: refresh of a correctly signed credential with expiry t succeeds if
\* and only if it is called at a time in [t, t + grace]; before t and after
\* t + grace it fails with an auth error.
C16_RefreshOnlyInsideWindow ==
  [][ \A c \in ReqIds :
        (HandlerRuns(c) /\ req[c] = RefreshReq(JwtShort))
        => IF now >= TokenExpSec * MsPerSec /\ now <= GraceEndMs
           THEN RefreshSucceeds(c)
           ELSE RefreshFails(c) ]_vars

\* C16 as the code has it: refresh succeeds if and only if it is called at a
\* time up to t + grace, t + grace included and the times before t included;
\* after t + grace it fails with "JWT expired".
C16_RefreshUntilGraceEnd ==
  [][ \A c \in ReqIds :
        (HandlerRuns(c) /\ req[c] = RefreshReq(JwtShort))
        => IF now <= GraceEndMs
           THEN RefreshSucceeds(c)
           ELSE tasks'[c].pc = "markFailed" /\ tasks'[c].err = "JWT expired" ]_vars

\* One refresh succeeded at the last instant of the window, another failed
\* after it.
C16_Witness ==
  /\ req[1] = RefreshReq(JwtShort)
  /\ req[2] = RefreshReq(JwtShort)
  /\ db[1].status = "completed"
  /\ db[1].response.jwtToken # <<>>
  /\ base64UrlDecode(db[1].response.jwtToken[1].body).iat = GraceEndMs \div MsPerSec
  /\ db[2].status = "failed"
  /\ db[2].response.error = "JWT expired"

\* issue failed with an auth error in the step.
IssueFails(c) ==
  /\ tasks'[c].pc = "markFailed"
  /\ tasks'[c].err \in { "Missing otp", "Invalid OTP" }

\* Every credential returned so far has exp = iat + 30 days and verifies
\* under the host secret now (every instant of the run precedes its expiry).
MintedAreSound ==
  \A jwt \in Minted :
    LET payload == base64UrlDecode(jwt[1].body)
    IN /\ payload.exp = payload.iat + JwtLifetimeSec
       /\ ~MsAfterSec(now, payload.exp)
       /\ verifyJwt(jwt[1], jwtSecret, FALSE, now) = << payload >>

\* A request presenting a credential is served when the credential is a
\* minted one and refused when its payload or signature differs from every
\* minted one.
PresentedAreJudged ==
  \A c \in ReqIds :
    (HandlerRuns(c) /\ req[c].type = "list_dirs")
    => ((tasks'[c].pc = "markFailed" /\ tasks'[c].err = "Invalid or expired JWT")
        <=> req[c].jwt \notin Minted)

\* C17: issue fails with an auth error whenever the presented proof differs
\* from the startup code; every minted credential has expires-at = issued-at
\* + 30 days and is accepted by verify before its expiry; a token whose
\* payload or signature differs from a minted one is rejected.
C17_IssueAndVerify ==
  /\ [][ \A c \in ReqIds :
           (HandlerRuns(c) /\ req[c].type = "authenticate"
              /\ req[c].otp # startupOtp)
           => IssueFails(c) ]_vars
  /\ [] MintedAreSound
  /\ [][ PresentedAreJudged ]_vars

\* C17 as the code has it: the proof is compared after its leading and
\* trailing white space is removed, so issue fails whenever the trimmed
\* proof differs from the startup code; the rest as stated.
C17_IssueTrimmedAndVerify ==
  /\ [][ \A c \in ReqIds :
           (HandlerRuns(c) /\ req[c].type = "authenticate")
           => IF trim(req[c].otp) # startupOtp
              THEN IssueFails(c)
              ELSE /\ tasks'[c].pc = "markCompleted"
                   /\ tasks'[c].response.jwtToken # <<>> ]_vars
  /\ [] MintedAreSound
  /\ [][ PresentedAreJudged ]_vars

\* The padded code was accepted, and the returned credential with an altered
\* payload was refused.
C17_Witness ==
  /\ req[1] = AuthReq(OtpPadded)
  /\ db[1].status = "completed"
  /\ Minted # {}
  /\ req[2].type = "list_dirs"
  /\ req[2].jwt \notin Minted
  /\ req[2].jwt[1].sig = db[1].response.jwtToken[1].sig
  /\ db[2].status = "failed"
  /\ db[2].response.error = "Invalid or expired JWT"

\* C18: after issue has succeeded once with the startup code, every later
\* issue request presenting the same code is rejected with an auth error.
C18_StartupCodeIsOneTime ==
  [][ \A c \in ReqIds :
        (HandlerRuns(c) /\ req[c] = AuthReq(startupOtp)
           /\ \E k \in ReqIds \ {c} :
                /\ req[k] = AuthReq(startupOtp)
                /\ db[k].status = "completed"
                /\ db[k].response.jwtToken # <<>>)
        => IssueFails(c) ]_vars

\* The ports of [min, max] that no tracked worker claims and that bind.
FreePorts(min, max) ==
  { p \in min..max : p \notin usedPorts(activeProcesses) /\ Bindable(p) }

\* The ranges tried: every pair of bounds around the configured range, the
\* empty ones (min > max) included.
RangeBounds == (PortMin - 1)..(PortMax + 1)

\* C19: for every range, every set of claimed ports and every set of
\* bindable ports, allocate returns the smallest port of the range that is
\* not claimed and binds, and fails (0) exactly when there is none.
C19_AllocateReturnsSmallestFree ==
  \A min \in RangeBounds, max \in RangeBounds :
    LET p == findAvailablePort(activeProcesses, min, max)
    IN IF FreePorts(min, max) = {}
       THEN p = 0
       ELSE /\ p \in FreePorts(min, max)
            /\ \A q \in FreePorts(min, max) : p <= q

\* A start was given the last port of the range because the first one,
\* claimed by no record, is held by a listening process.
C19_Witness ==
  /\ tasks[1].pc = "spawn"
  /\ tasks[1].port = PortMax
  /\ PortMin \notin usedPorts(activeProcesses)
  /\ PortServed(PortMin)
  /\ findAvailablePort(activeProcesses, PortMin, PortMax) = PortMax

\* The concatenation, in order, of the deltas of one kind in a sequence of
\* received delta events.
RECURSIVE concatDeltas(_, _)
concatDeltas(events, kind) ==
  IF events = <<>> THEN <<>>
  ELSE (IF Head(events).kind = kind THEN Head(events).delta ELSE <<>>)
       \o concatDeltas(Tail(events), kind)

\* Request r is a relay that completed on a session-idle event.
CompletedOnIdle(r) ==
  /\ req[r].type = "relay_message"
  /\ db[r].status = "completed"
  /\ relays[r].completed

timeoutError == "Timed out waiting for AI response (180s)"

\* The relay of call c is in its stream phase, no idle event has completed
\* it and its promise is not settled.
AwaitingIdle(c) ==
  /\ relays[c].st \in TimerStates
  /\ ~relays[c].completed
  /\ relays[c].settled = ""

\* C21: a relay for which no session-idle event arrives within the overall
\* bound fails with the timeout error and its stream connection is aborted,
\* also when the bound is reached while the relay waits for a tool result:
\* a relay awaiting idle does not wait forever, the timer's firing rejects
\* the call with the timeout error and aborts the stream, and the request
\* then fails with that error.
C21_TimeoutFailsTheRelay ==
  /\ AwaitingIdle(1) ~> ~AwaitingIdle(1)
  /\ [][ (AwaitingIdle(1) /\ relays'[1].aborted)
         => /\ relays'[1].settled = "rejected"
            /\ relays'[1].err = timeoutError ]_vars
  /\ [](relays[1].aborted => relays[1].settled = "rejected")
  /\ relays[1].aborted
       ~> (db[1].status = "failed" /\ db[1].response.error = timeoutError)

\* The request has failed with the timeout error while its relay is still
\* suspended in the tool-result wait it was in when the timer fired.
C21_Witness ==
  /\ relays[1].st = "toolPoll"
  /\ relays[1].aborted
  /\ db[1].status = "failed"
  /\ db[1].response.error = timeoutError

\* The relay of call c names a port that no record holds and gives no
\* directory.
OrphanRelay(c) ==
  /\ req[ReqOf(c)].type = "relay_message"
  /\ JwtError(req[ReqOf(c)].jwt, now) = ""
  /\ req[ReqOf(c)].message # ""
  /\ req[ReqOf(c)].port # 0
  /\ req[ReqOf(c)].directory = <<>>
  /\ \A i \in 1..Len(activeProcesses) :
       activeProcesses[i].port # req[ReqOf(c)].port

portNamingError(c) ==
  "No active opencode serve on port " \o ToString(req[ReqOf(c)].port)

C23_ShutdownStopsAllAndEndsOffline ==
  /\ [](host.pc = "exited" =>
          /\ \A pid \in Pids : procs[pid].state = "exited"
          /\ host.status = "offline")
  /\ [][host.pc = "markOffline" => host'.status = "offline"]_vars

\* The relay of call c is suspended in pollAndSubmitToolResult.
InToolWait(c) == relays[c].st \in { "toolPoll", "toolForward" }

\* C24: pendingTools holds an entry for a request only while a relay of that
\* request is blocked in a tool-result wait.
C24_PendingToolOnlyWhileWaiting ==
  \A r \in ReqIds :
    pendingTools[r] # <<>> =>
      \E c \in CallIds : ReqOf(c) = r /\ InToolWait(c)

\* Every process spawned for the directory, or bound to the port, that the
\* request of call c names has exited.
WorkerGone(c) ==
  LET q == req[ReqOf(c)] IN
  /\ JwtError(q.jwt, now) = ""
  /\ q.directory = DirP
  /\ \/ /\ q.type = "start_opencode"
        /\ \A pid \in SpawnedFor(StartPath(c)) : ~Running(pid)
     \/ /\ q.type = "relay_message"
        /\ \A pid \in SpawnedFor(relayRestartPath(q.directory)) : ~Running(pid)
        /\ \A pid \in Pids : procs[pid].port = q.port => ~Running(pid)

Starting(pid) == \E c \in CallIds : tasks[c].pc = "waitReady" /\ tasks[c].pid = pid

\* C26: the map holds no record of a worker whose health check has not yet
\* passed, and no start or relay is handed the port of such a worker.
C26_RecordOnlyAfterHealthCheck ==
  /\ \A i \in 1..Len(activeProcesses) : ~Starting(activeProcesses[i].pid)
  /\ \A c \in CallIds :
       tasks[c].pc \in { "startReturned", "relayAwait" } =>
         \A pid \in Pids : Starting(pid) => procs[pid].port # tasks[c].port

\* The processes whose record is deleted from the map in this step (a record
\* replaced by that of a new worker for its directory is not counted).
DeletedPids ==
  { activeProcesses[i].pid : i \in
      { j \in 1..Len(activeProcesses) :
          ~ApHas(activeProcesses', activeProcesses[j].path) } }

\* The step is an event of process pid: its exit, or the resumption of a
\* stop or of a startup-timeout cleanup that was waiting for it.
OwnEvent(pid) ==
  \/ Running(pid) /\ procs'[pid].state = "exited"
  \/ \E t \in TaskIds :
       /\ tasks[t].pid = pid
       /\ tasks[t].pc \in { "stopWait", "waitReady" }
       /\ tasks'[t].pc # tasks[t].pc

\* C27: a record leaves the map only in a step that is an event of its own
\* process.
C27_RecordRemovedOnlyByOwnProcess ==
  [][ \A pid \in DeletedPids : OwnEvent(pid) ]_vars

\* C28: an event of another session leaves the relay as it is, and a relay
\* is never suspended for, or writes the pending tool of, a tool invocation of
\* a session other than its own.
C28_OnlyOwnSessionEventsAct ==
  /\ [][ (\E type \in EventTypes, id \in ToolIds, sid \in 1..MaxSessions :
            ForeignEvent(1, type, id, sid)) => relays'[1] = relays[1] ]_vars
  /\ [](relays[1].toolSession \in { 0, relays[1].sid })

\* C29: within one relay a submitted tool result is forwarded for at most one
\* tool invocation: two forwards of the same submitted result belong to the
\* same invocation.
C29_ToolResultForwardedOnce ==
  \A f, g \in toolForwards :
    (f.req = g.req /\ f.toolCallId = g.toolCallId /\ f.result = g.result)
      => f.pending = g.pending

Terminal(r) == db[r].status \in { "completed", "failed" }

\* The relay of call c has sent a mutation that adds a tool part or sets the
\* pending tool, or the POST of a tool result, and awaits its answer.
ToolWriteInFlight(c) ==
  relays[c].st \in { "toolAddPart", "toolSetPending", "toolForward" }

\* C30: once the terminal outcome of a relay request is written, its relay
\* issues no further write: no partial push, no tool part, no pending tool
\* and no forward of a tool result begins.
C30_NothingAfterTerminalOutcome ==
  [][ Terminal(1) =>
        /\ ToolWriteInFlight(1)' => relays'[1].st = relays[1].st
        /\ relays'[1].pushPending => relays[1].pushPending ]_vars

\* C31: a relay request is completed only if one of its relay calls observed
\* the session-idle event of its session.
C31_CompletedOnlyOnIdle ==
  \A r \in ReqIds :
    (req[r].type = "relay_message" /\ db[r].status = "completed")
      => \E c \in CallIds : ReqOf(c) = r /\ relays[c].completed

\* The relay of call c has acquired its session and has not ended.
OnSession(c) ==
  /\ relays[c].sid # 0
  /\ relays[c].st \notin { "none", "sessionStatus", "sessionCreate", "ended" }

\* C32: two relays in flight at the same time for the same directory, neither
\* naming a session, never run on the same session of the same worker.
C32_ConcurrentRelaysUseDistinctSessions ==
  \A c1, c2 \in CallIds :
    ( /\ c1 # c2
      /\ OnSession(c1) /\ OnSession(c2)
      /\ req[ReqOf(c1)].sessionId = 0 /\ req[ReqOf(c2)].sessionId = 0
      /\ relays[c1].dir = relays[c2].dir
      /\ relays[c1].port = relays[c2].port )
    => relays[c1].sid # relays[c2].sid

\* The worker answers the status query of call c with its session idle.
ReportedIdle(c) ==
  \E x \in sessions :
    /\ x.sid = relays[c].sid
    /\ x.pid # 0
    /\ x.pid = ServingPid(relays[c].port)
    /\ ~x.busy

\* C33: session acquisition uses the caller's session id as it is and leaves
\* the bindings alone; without one it asks the worker about the directory's
\* bound session and keeps it only if the worker reports it idle; with no
\* binding, or a session reported busy or unknown, or a failed status query,
\* it goes on to create a session, and a created session is new and becomes
\* the directory's binding.
C33_SessionAcquisition ==
  [][ \A c \in 1..2 :
        LET q   == req[ReqOf(c)]
            dir == relayDirectory(q.directory)
        IN
        /\ (relays[c].st = "none" /\ relays'[c].st # "none") =>
             /\ relaySessions' = relaySessions
             /\ IF q.sessionId # 0
                THEN relays'[c].st = "connect" /\ relays'[c].sid = q.sessionId
                ELSE IF \E e \in relaySessions : e.dir = dir
                THEN /\ relays'[c].st = "sessionStatus"
                     /\ [dir |-> dir, sid |-> relays'[c].sid] \in relaySessions
                ELSE relays'[c].st = "sessionCreate"
        /\ (relays[c].st = "sessionStatus" /\ relays'[c].st # "sessionStatus") =>
             /\ relaySessions' = relaySessions
             /\ relays'[c].sid = relays[c].sid
             /\ relays'[c].st = IF ReportedIdle(c) THEN "connect" ELSE "sessionCreate"
        /\ (relays[c].st = "sessionCreate" /\ relays'[c].st = "connect") =>
             /\ \A x \in sessions : x.sid # relays'[c].sid
             /\ \E x \in sessions' : x.sid = relays'[c].sid
             /\ { e \in relaySessions' : e.dir = dir } =
                  { [dir |-> dir, sid |-> relays'[c].sid] }
        /\ (q.sessionId # 0 /\ relays[c].st # "none") =>
             relays'[c].sid = q.sessionId ]_vars

C33_Witness ==
  /\ req[1].sessionId = 0 /\ req[2].sessionId = 0
  /\ relays[1].st = "stream" /\ relays[1].sid = 1
  /\ relays[2].st = "connect" /\ relays[2].sid = 2
  /\ relaySessions = { [dir |-> DirP, sid |-> 2] }
  /\ \E x \in sessions : x.sid = 1 /\ x.busy


\* C34: whenever a relay has completed on the session-idle event with text or
\* reasoning accumulated and waits for its final push, that push has called
\* the partial-output mutation with the whole accumulated text and reasoning.
C34_FinalPushCarriesAllOutput ==
  \A c \in CallIds :
    ( /\ relays[c].st = "finalPush"
      /\ (relays[c].text # <<>> \/ relays[c].reasoning # <<>>) )
    => /\ relays[c].finalPushing
       /\ relays[c].pushText = relays[c].text
       /\ relays[c].pushReasoning = relays[c].reasoning


\* The clock of a relay whose push interval is watched, in steps shorter
\* than the interval.
PushStepMs == 50
MaxPushSteps == 4

PushClock ==
  /\ now < StartMs + MaxPushSteps * PushStepMs
  /\ now' = now + PushStepMs
  /\ UNCHANGED << host, relays, sessions, toolForwards, req, db, processedIds, dispatched,
                  tasks, activeProcesses, relaySessions, pendingTools, procs,
                  fsCalls, workerCalls >>

\* One relay to the running worker whose deltas arrive in bursts: the push
\* interval's callback may run at any moment of the fine clock.
NextThrottle ==
  \/ \E q \in MenuStream : Create(1, q)
  \/ QueueStep(1)
  \/ HandleRelayMessage(1)
  \/ SessionCreate(1) \/ SseConnect(1) \/ RelayPrompt(1)
  \/ \E kind \in DeltaKinds, delta \in DeltaTexts : RelayDelta(1, kind, delta)
  \/ RelayPushTick(1) \/ RelayPushDone(1)
  \/ RelayIdle(1) \/ RelayFinalPushDone(1)
  \/ RelayTimeout(1) \/ RelayAborted(1)
  \/ RelayReturned(1)
  \/ PushClock

SpecThrottle == InitWorker /\ [][NextThrottle]_vars

\* A step in which call c calls the partial-output mutation.
PushStarts(c) ==
  /\ relays'[c].pushPending
  /\ \/ ~relays[c].pushPending
     \/ relays'[c].lastPushTime # relays[c].lastPushTime
     \/ relays'[c].pushText # relays[c].pushText
     \/ relays'[c].pushReasoning # relays[c].pushReasoning

\* C35: a partial-output write that is not the forced one starts only when
\* no write of the relay is in flight and the last write was started at
\* least 150 ms before; so no two of them start within one interval, however
\* many deltas arrived in it.
C35_PushesThrottledAndSerial ==
  [][ \A c \in CallIds :
        (PushStarts(c) /\ ~relays'[c].completed) =>
          /\ ~relays[c].pushPending
          /\ now - relays[c].lastPushTime >= PushIntervalMs
          /\ relays'[c].lastPushTime = now ]_vars

\* A second interval push in flight after a first one was applied, with a
\* burst of two deltas received.
C35_Witness ==
  /\ relays[1].pushPending
  /\ ~relays[1].completed
  /\ db[1].partialResponse # <<>>
  /\ Len(relays[1].received) = MaxDeltas
  /\ relays[1].lastPushTime >= StartMs + PushIntervalMs


\* The prompt of request q on a port.
PromptCall(q, port) == <<q, port, "prompt_async">>

NextRestart ==
  \/ \E r \in 1..2 : Create(r, RelayStopReq(r))
  \/ \E r \in 1..2 : QueueStep(r)
  \/ RelayStep(1)
  \/ RestartStep(1)
  \/ HandleStopOpencode(2) \/ StopStep(2) \/ StopReturned(2)
  \/ ProcStep

SpecRestart == InitWorker /\ [][NextRestart]_vars

\* Call c is a relay that started a worker for its directory.
Restarted(c) == tasks[c].ret = "relay" /\ relays[c].st # "none"

\* C37: a relay naming a directory and a port that no record holds starts a
\* worker for that directory; it relays to the port of the directory's
\* record, whatever port was requested; and each delta it receives sets the
\* last activity of that record to the time of the delta.
C37_RestartedRelayKeepsItsWorkerActive ==
  [][ \A c \in CallIds :
        LET q == req[ReqOf(c)] IN
        /\ (tasks[c].pc = "handler" /\ tasks'[c].pc # "handler"
            /\ q.type = "relay_message" /\ q.jwt = JwtValid
            /\ q.message # "" /\ q.port # 0 /\ q.directory # <<>>
            /\ ApPortIndex(activeProcesses, q.port) = 0)
           => \/ tasks'[c].ret = "relay" /\ tasks'[c].dir = relayRestartPath(q.directory)
              \/ tasks'[c].err = "No available ports in range"
        /\ (tasks[c].ret = "relay" /\ relays[c].st = "none" /\ relays'[c].st # "none")
           => /\ relays'[c].port = tasks[c].port
              /\ ApHas(activeProcesses, tasks[c].dir)
                   => relays'[c].port = ApGet(activeProcesses, tasks[c].dir).port
        /\ (Restarted(c) /\ Len(relays'[c].received) > Len(relays[c].received))
           => /\ ApHas(activeProcesses', tasks[c].dir)
              /\ ApGet(activeProcesses', tasks[c].dir).port = relays[c].port
              /\ ApGet(activeProcesses', tasks[c].dir).lastActivity = now ]_vars


\* One relay to the running worker whose stream carries deltas and
\* part-added events of two parts, in any order and with any types.
NextParts ==
  \/ \E q \in MenuStream : Create(1, q)
  \/ QueueStep(1)
  \/ HandleRelayMessage(1)
  \/ SessionCreate(1) \/ SseConnect(1) \/ RelayPrompt(1)
  \/ \E partId \in PartIds \cup { "" }, type \in PartTypes, kind \in DeltaKinds :
       RelayPartDelta(1, partId, type, DeltaOf(kind))
  \/ \E partId \in PartIds, type \in PartTypes : RelayPartAdded(1, partId, type)
  \/ PartAddDone(1)
  \/ RelayIdle(1) \/ RelayFinalPushDone(1)
  \/ RelayTimeout(1) \/ RelayAborted(1)
  \/ RelayReturned(1)

SpecParts == InitWorker /\ [][NextParts]_vars

\* C38: any two deltas a relay has received with the same part id went to
\* the same accumulator.
C38_DeltasOfAPartShareAnAccumulator ==
  \A c \in CallIds :
    \A i, j \in 1..Len(relays[c].received) :
      LET a == relays[c].received[i]
          b == relays[c].received[j]
      IN ("part" \in DOMAIN a /\ "part" \in DOMAIN b /\ a.part # "" /\ a.part = b.part)
           => a.kind = b.kind


\* The payload a credential carries.
PayloadOf(jwt) == base64UrlDecode(jwt[1].body)

\* C39: when a refresh succeeds, the credential it returns carries the
\* subject and the host id of the one presented, is issued at the second of
\* the refresh, expires 30 days after that, and verifies under the host's
\* secret.
C39_RefreshedCredential ==
  [][ \A c \in CallIds :
        ( /\ tasks[c].pc = "handler"
          /\ req[ReqOf(c)].type = "refresh_jwt"
          /\ tasks'[c].pc = "markCompleted" )
        => LET old   == PayloadOf(req[ReqOf(c)].jwt)
               token == tasks'[c].response.jwtToken
               new   == PayloadOf(token)
           IN /\ token # <<>>
              /\ new.sub = old.sub
              /\ new.hostId = old.hostId
              /\ new.iat = now \div MsPerSec
              /\ new.exp = new.iat + JwtLifetimeSec
              /\ verifyJwt(token[1], jwtSecret, FALSE, now) = << new >> ]_vars

\* A refresh of the expired credential, inside the grace window, has been
\* answered with a credential issued at a later second than the old one.
C39_Witness ==
  \E r \in ReqIds :
    /\ req[r].type = "refresh_jwt"
    /\ db[r].status = "completed"
    /\ db[r].response.jwtToken # <<>>
    /\ PayloadOf(db[r].response.jwtToken).iat > PayloadOf(req[r].jwt).exp
    /\ PayloadOf(db[r].response.jwtToken).sub = "host-authentication"


\* The last n entries of a sequence.
LastIds(ids, n) == [i \in 1..n |-> ids[Len(ids) - n + i]]

====
